---- MODULE Spec2Model ----
(***************************************************************************)
(* Color Confusion (Stroop) session engine.                                *)
(*                                                                         *)
(*   Spec        the C# GameSession state machine (ConfusionEngine.cs)     *)
(*   SpecPoints  the point calculators applied to bounded inputs           *)
(*   SpecCombo   the Java ComboTracker (ConfusionEngine.java)              *)
(*   SpecRating  the performance raters applied to bounded inputs          *)
(*   SpecQuestion the question generators applied to every random outcome  *)
(*   SpecRanker  the C++ leaderboard ranker                                *)
(*   SpecClient  the browser game (app.js)                                 *)
(*   SpecRewards the coins and stars of a session on bounded totals        *)
(*   SpecAnalyzer the Java SessionAnalyzer driven by the loop of main      *)
(*   SpecHistory queries on a session, a ranker and an analyzer with short *)
(*               histories                                                 *)
(*   SpecAnswer  one answer in any spelling validated by the C# session    *)
(*               and by the Java StroopValidator                           *)
(*   SpecFill    the loops that complete the options of a question, one    *)
(*               random draw per step; SpecFillFair adds fair draws        *)
(*   SpecClientLive the browser game played without end, seen through      *)
(*               TimerView, with a timer that keeps firing                 *)
(***************************************************************************)
EXTENDS Integers, Sequences, FiniteSets, TLC

VARIABLES
    Mode, State, Score, TotalPoints, Combo, MaxCombo, Lives, TimeLeft,
    Target, Difficulty, WrongAnswers, CurrentQuestion, StartTime,
    colorPool, reactions,       \* GameSession._colorPool, _reactions
    now,                        \* the wall clock read by DateTime.Now
    ret,                        \* the value returned by the last call
    calc,                       \* SpecPoints: inputs and results of the calculators
    tracker,                    \* SpecCombo: the ComboTracker fields
    answers,                    \* SpecCombo: log of recorded answers (TRUE = correct);
                                \* SpecAnswer: the colours submitted
    client                      \* SpecClient: the closure of startConfusionMode (app.js)

sessionVars == <<Mode, State, Score, TotalPoints, Combo, MaxCombo, Lives, TimeLeft,
                 Target, Difficulty, WrongAnswers, CurrentQuestion, StartTime,
                 colorPool, reactions, now, ret>>
vars == <<sessionVars, calc, tracker, answers, client>>

(***************************************************************************)
(* Bounds of the exploration.                                              *)
(***************************************************************************)
MaxScore   == 51   \* correct answers accepted per session (Target is 50)
MaxWrong   == 22   \* wrong answers accepted per session (60s / 3s = 20)
MaxMixed   == 1    \* a run holds at most MaxMixed wrong answers or at most MaxMixed correct ones
MaxVaried  == 1    \* the first MaxVaried reaction times vary, later ones are SteadyReaction
MaxRandom  == 1    \* outcomes of one random draw explored inside a session
MaxClock   == 1    \* clock ticks (seconds)
MaxLog     == 7    \* ComboTracker: recorded answers
MaxComboIn == 12   \* SpecPoints: largest combo input

\* the reaction times (ms) a session is fed
ReactionTimes  == {300, 2500}
SteadyReaction == CHOOSE r \in ReactionTimes : \A q \in ReactionTimes : r <= q

Min(a, b) == IF a < b THEN a ELSE b
Max(a, b) == IF a > b THEN a ELSE b
Range(s)  == {s[i] : i \in 1..Len(s)}

(***************************************************************************)
(* IEEE-754 binary64 arithmetic on non-negative values.                    *)
(* A natural number is a little-endian sequence of 15-bit limbs; a double  *)
(* is [m, e] standing for m * 2^e with m < 2^54.                           *)
(***************************************************************************)
Limb == 32768

RECURSIVE Pow2(_)
Pow2(n) == IF n = 0 THEN 1 ELSE 2 * Pow2(n - 1)

RECURSIVE ToBig(_)
ToBig(n) == IF n = 0 THEN <<>> ELSE <<n % Limb>> \o ToBig(n \div Limb)

RECURSIVE ToInt(_)
ToInt(a) == IF a = <<>> THEN 0 ELSE a[1] + Limb * ToInt(Tail(a))

RECURSIVE Norm(_)
Norm(a) == IF a # <<>> /\ a[Len(a)] = 0 THEN Norm(SubSeq(a, 1, Len(a) - 1)) ELSE a

RECURSIVE AddCarry(_, _, _)
AddCarry(a, b, c) ==
    IF a = <<>> /\ b = <<>> THEN (IF c = 0 THEN <<>> ELSE <<c>>)
    ELSE LET x == IF a = <<>> THEN 0 ELSE a[1]
             y == IF b = <<>> THEN 0 ELSE b[1]
             s == x + y + c
         IN  <<s % Limb>> \o AddCarry(IF a = <<>> THEN a ELSE Tail(a),
                                      IF b = <<>> THEN b ELSE Tail(b), s \div Limb)

BigAdd(a, b) == AddCarry(a, b, 0)

RECURSIVE MulCarry(_, _, _)
MulCarry(a, k, c) ==
    IF a = <<>> THEN (IF c = 0 THEN <<>> ELSE <<c>>)
    ELSE LET s == a[1] * k + c
         IN  <<s % Limb>> \o MulCarry(Tail(a), k, s \div Limb)

MulSmall(a, k) == Norm(MulCarry(a, k, 0))

\* a * 2^15
ShiftLimb(a) == IF a = <<>> THEN <<>> ELSE <<0>> \o a

\* row + rest * 2^15
AddRow(row, rest) == IF rest = <<>> THEN row ELSE BigAdd(row, ShiftLimb(rest))

RECURSIVE BigMul(_, _)
BigMul(a, b) ==
    IF b = <<>> THEN <<>>
    ELSE AddRow(MulSmall(a, b[1]), BigMul(a, Tail(b)))

RECURSIVE BitsOf(_)
BitsOf(n) == IF n = 0 THEN 0 ELSE 1 + BitsOf(n \div 2)

BitLen(a) == LET n == Norm(a)
             IN  IF n = <<>> THEN 0 ELSE 15 * (Len(n) - 1) + BitsOf(n[Len(n)])

RECURSIVE Zeros(_)
Zeros(k) == IF k = 0 THEN <<>> ELSE <<0>> \o Zeros(k - 1)

ShiftLeft(a, s) ==
    IF Norm(a) = <<>> THEN <<>>
    ELSE Zeros(s \div 15) \o MulSmall(Norm(a), Pow2(s % 15))

\* floor(a / 2^s) and whether any discarded bit was set
ShiftRightSticky(a, s) ==
    LET k    == Min(s \div 15, Len(a))
        low  == SubSeq(a, 1, k)
        high == SubSeq(a, k + 1, Len(a))
        d    == Pow2(s % 15)
        q    == [i \in 1..Len(high) |->
                   (high[i] \div d) + (IF i < Len(high) THEN (high[i + 1] % d) * (Limb \div d) ELSE 0)]
        lost == IF high = <<>> THEN 0 ELSE high[1] % d
    IN  [q |-> Norm(q), sticky |-> (lost # 0) \/ (\E i \in 1..Len(low) : low[i] # 0)]

IsOdd(a) == a # <<>> /\ a[1] % 2 = 1

\* a / 2^s rounded to nearest, a tie going to the even neighbour (s >= 1)
RoundShiftEven(a, s) ==
    LET x  == ShiftRightSticky(a, s - 1)
        q  == ShiftRightSticky(x.q, 1).q
        up == IsOdd(x.q) /\ (x.sticky \/ IsOdd(q))
    IN  IF up THEN BigAdd(q, <<1>>) ELSE q

\* a / 2^s rounded to nearest, a tie going away from zero (s >= 1)
RoundShiftAway(a, s) ==
    LET x == ShiftRightSticky(a, s - 1)
        q == ShiftRightSticky(x.q, 1).q
    IN  IF IsOdd(x.q) THEN BigAdd(q, <<1>>) ELSE q

\* the double nearest to m * 2^e (round-to-nearest-even, the IEEE default)
ToDouble(m, e) ==
    LET n == BitLen(m)
    IN  IF n <= 53 THEN [m |-> Norm(m), e |-> e]
        ELSE [m |-> RoundShiftEven(m, n - 53), e |-> e + (n - 53)]

DoubleOfInt(n) == [m |-> ToBig(n), e |-> 0]
DoubleMul(x, y) ==
    IF x.m = <<>> \/ y.m = <<>> THEN [m |-> <<>>, e |-> x.e + y.e]
    ELSE ToDouble(BigMul(x.m, y.m), x.e + y.e)
\* x + y with both mantissas aligned at the exponent e, the smaller of the two
DoubleAddAt(x, y, e) ==
    ToDouble(BigAdd(ShiftLeft(x.m, x.e - e), ShiftLeft(y.m, y.e - e)), e)
DoubleAdd(x, y) ==
    IF x.e <= y.e THEN DoubleAddAt(x, y, x.e) ELSE DoubleAddAt(x, y, y.e)

\* floor(a / d) and a % d for a small divisor d (0 < d < Limb)
RECURSIVE BigDivSmall(_, _)
BigDivSmall(a, d) ==
    IF a = <<>> THEN [q |-> <<>>, r |-> 0]
    ELSE LET hi  == BigDivSmall(Tail(a), d)
             cur == hi.r * Limb + a[1]
         IN  [q |-> <<cur \div d>> \o hi.q, r |-> cur % d]

\* x / y for a double y that is a whole number below 1024: the quotient is taken
\* with 64 extra bits and a sticky bit, then rounded to nearest-even
DoubleDiv(x, y) ==
    IF x.m = <<>> \/ y.m = <<>> THEN [m |-> <<>>, e |-> x.e - 65]
    ELSE LET d  == ToInt(ShiftLeft(y.m, y.e))
             qr == BigDivSmall(ShiftLeft(x.m, 64), d)
             m  == BigAdd(MulSmall(Norm(qr.q), 2), IF qr.r # 0 THEN <<1>> ELSE <<>>)
         IN  ToDouble(m, x.e - 65)

\* a < b for two naturals
RECURSIVE BigLessAt(_, _, _)
BigLessAt(a, b, i) ==
    IF i = 0 THEN FALSE
    ELSE IF a[i] # b[i] THEN a[i] < b[i]
    ELSE BigLessAt(a, b, i - 1)
BigLess(a, b) ==
    LET x == Norm(a)
        y == Norm(b)
    IN  IF Len(x) # Len(y) THEN Len(x) < Len(y) ELSE BigLessAt(x, y, Len(x))

\* x < y and x = y for two doubles
DoubleLess(x, y) ==
    LET e == Min(x.e, y.e)
    IN  BigLess(ShiftLeft(x.m, x.e - e), ShiftLeft(y.m, y.e - e))
DoubleEq(x, y) ==
    LET e == Min(x.e, y.e)
    IN  Norm(ShiftLeft(x.m, x.e - e)) = Norm(ShiftLeft(y.m, y.e - e))

\* a - b for two naturals with a >= b
RECURSIVE SubBorrow(_, _, _)
SubBorrow(a, b, c) ==
    IF a = <<>> THEN <<>>
    ELSE LET y == (IF b = <<>> THEN 0 ELSE b[1]) + c
         IN  IF a[1] >= y
             THEN <<a[1] - y>> \o SubBorrow(Tail(a), IF b = <<>> THEN <<>> ELSE Tail(b), 0)
             ELSE <<a[1] + Limb - y>> \o SubBorrow(Tail(a), IF b = <<>> THEN <<>> ELSE Tail(b), 1)
BigSub(a, b) == Norm(SubBorrow(a, b, 0))

\* x - y for two doubles with x >= y
DoubleSubAt(x, y, e) ==
    ToDouble(BigSub(ShiftLeft(x.m, x.e - e), ShiftLeft(y.m, y.e - e)), e)
DoubleSub(x, y) ==
    IF x.e <= y.e THEN DoubleSubAt(x, y, x.e) ELSE DoubleSubAt(x, y, y.e)

\* floor(sqrt(a)), six bits at a time: r holds the bits above bit k + 5 (r * r <= a),
\* and the next six bits are the number of d in 1..63 with (r + d * 2^k)^2 <= a
RECURSIVE ISqrtFrom(_, _, _)
ISqrtFrom(a, r, k) ==
    IF k < 0 \/ BigLess(a, BigMul(r, r)) THEN r
    ELSE ISqrtFrom(a,
                   BigAdd(r, ShiftLeft(ToBig(Cardinality({d \in 1..63 :
                       LET c == BigAdd(r, ShiftLeft(ToBig(d), k))
                       IN  ~BigLess(a, BigMul(c, c))})), k)),
                   k - 6)
ISqrt(a) == ISqrtFrom(a, <<>>, 6 * ((BitLen(a) \div 2) \div 6))

\* std::sqrt(double): the root is taken to 55 bits or more with a sticky bit, then
\* rounded to nearest-even
SqrtRounded(a, r, e) ==
    IF Norm(BigMul(r, r)) = Norm(a) THEN ToDouble(MulSmall(r, 2), e)
    ELSE ToDouble(BigAdd(MulSmall(r, 2), <<1>>), e)
SqrtShifted(x, t) == SqrtRounded(ShiftLeft(x.m, t), ISqrt(ShiftLeft(x.m, t)), ((x.e - t) \div 2) - 1)
DoubleSqrt(x) ==
    IF Norm(x.m) = <<>> THEN DoubleOfInt(0)
    ELSE LET need == Max(0, 110 - BitLen(x.m))
         IN  IF (x.e - need) % 2 = 0 THEN SqrtShifted(x, need) ELSE SqrtShifted(x, need + 1)

\* the double literals 0.1 = 0x1.999999999999ap-4 and 0.15 = 0x1.3333333333333p-3
Double_0_1  == [m |-> <<19661, 6553, 13107, 102>>, e |-> -55]
Double_0_15 == [m |-> <<13107, 26214, 19660, 153>>, e |-> -55]

\* System.Math.Round(double): MidpointRounding.ToEven
MathRound(x) ==
    IF x.e >= 0 THEN ToInt(ShiftLeft(x.m, x.e)) ELSE ToInt(RoundShiftEven(x.m, -x.e))

\* std::round(double): halfway cases away from zero
StdRound(x) ==
    IF x.e >= 0 THEN ToInt(ShiftLeft(x.m, x.e)) ELSE ToInt(RoundShiftAway(x.m, -x.e))

\* java.lang.Math.round(double): floor(x + 1/2), the sum taken exactly
JavaMathRound(x) ==
    IF x.e >= 0 THEN ToInt(ShiftLeft(x.m, x.e))
    ELSE ToInt(ShiftRightSticky(BigAdd(x.m, ShiftLeft(<<1>>, -x.e - 1)), -x.e).q)

\* Math.round(x) of JavaScript: the nearest integer, a half going up
JsMathRound(x) ==
    IF x.e >= 0 THEN ToInt(ShiftLeft(x.m, x.e))
    ELSE ToInt(ShiftRightSticky(BigAdd(x.m, ShiftLeft(<<1>>, -x.e - 1)), -x.e).q)

\* Math.floor(a / b) of JavaScript for integers a and b > 0
JsFloorDiv(a, b) == a \div b

\* integer division of C#, C++ and Java: truncation toward zero
IntDiv(a, b) == IF a >= 0 THEN a \div b ELSE -((-a) \div b)

(***************************************************************************)
(* ScoreCalculator (C#) and ScoringEngine (C++)                            *)
(***************************************************************************)
SpeedBonus(reactionTimeMs) == Max(0, IntDiv(2000 - reactionTimeMs, 100))

\* (basePoints + speedBonus) * comboMultiplier * difficultyBonus, in doubles
PointsProduct(reactionTimeMs, currentCombo, difficulty) ==
    LET basePoints      == 10
        speedBonus      == SpeedBonus(reactionTimeMs)
        comboMultiplier == DoubleAdd(DoubleOfInt(1), DoubleMul(DoubleOfInt(currentCombo), Double_0_1))
        difficultyBonus == DoubleAdd(DoubleOfInt(1), DoubleMul(DoubleOfInt(difficulty - 1), Double_0_15))
    IN  DoubleMul(DoubleMul(DoubleOfInt(basePoints + speedBonus), comboMultiplier), difficultyBonus)

CalculatePoints(reactionTimeMs, currentCombo, difficulty) ==
    MathRound(PointsProduct(reactionTimeMs, currentCombo, difficulty))

calculatePoints(reactionTimeMs, currentCombo, difficulty) ==
    StdRound(PointsProduct(reactionTimeMs, currentCombo, difficulty))

\* SessionAnalyzer.calculatePoints (Java): the same expression, rounded by Math.round
SessionAnalyzer_calculatePoints(reactionTimeMs, combo, difficulty) ==
    JavaMathRound(PointsProduct(reactionTimeMs, combo, difficulty))

(***************************************************************************)
(* ColorRegistry                                                           *)
(***************************************************************************)
\* ColorRegistry.Colors.Keys, in insertion order
Colors == << "Red", "Blue", "Green", "Yellow", "Purple", "Orange", "Pink", "Cyan",
             "Indigo", "Violet", "Black", "Brown", "Lavender", "White", "Beige" >>

ColorHex == << "#ef4444", "#3b82f6", "#22c55e", "#eab308", "#8b5cf6", "#f97316", "#ff29ff",
               "#06b6d4", "#6366f1", "#8b5cf6", "#1a1a1a", "#78350f", "#a78bfa", "#ffffff",
               "#f5f5dc" >>

\* the upper-case and lower-case spellings of the registry names
UpperNames == << "RED", "BLUE", "GREEN", "YELLOW", "PURPLE", "ORANGE", "PINK", "CYAN",
                 "INDIGO", "VIOLET", "BLACK", "BROWN", "LAVENDER", "WHITE", "BEIGE" >>
LowerNames == << "red", "blue", "green", "yellow", "purple", "orange", "pink", "cyan",
                 "indigo", "violet", "black", "brown", "lavender", "white", "beige" >>

\* string.ToUpper() on the strings the model uses
ToUpper(s) ==
    IF \E i \in 1..Len(Colors) : s \in {Colors[i], UpperNames[i], LowerNames[i]}
    THEN UpperNames[CHOOSE i \in 1..Len(Colors) : s \in {Colors[i], UpperNames[i], LowerNames[i]}]
    ELSE IF s = "WrongColor" THEN "WRONGCOLOR" ELSE s

\* string.Equals(other, StringComparison.OrdinalIgnoreCase)
EqualsIgnoreCase(a, b) == ToUpper(a) = ToUpper(b)

\* ColorRegistry.Colors.GetValueOrDefault(name, "#888")
GetValueOrDefault(name) ==
    IF \E i \in 1..Len(Colors) : Colors[i] = name
    THEN ColorHex[CHOOSE i \in 1..Len(Colors) : Colors[i] = name]
    ELSE "#888"

\* variant: one more colour per difficulty level
GetColorPool_OnePerLevel(difficulty) ==
    LET count == Min(Len(Colors), 4 + (difficulty - 1))
    IN  SubSeq(Colors, 1, count)

\* ColorRegistry.GetColorPool
GetColorPool(difficulty) ==
    LET count == Min(Len(Colors), 4 + (difficulty - 1) * 2)
    IN  SubSeq(Colors, 1, count)

(***************************************************************************)
(* GameSession                                                             *)
(***************************************************************************)
GameMode == {"Endless", "Survival", "SpeedRun"}

Null == [kind |-> "null"]
Void == [kind |-> "void"]

\* new GameSession(mode)
SessionInit ==
    /\ Mode \in GameMode
    /\ State = "Idle"
    /\ Score = 0
    /\ TotalPoints = 0
    /\ Combo = 0
    /\ MaxCombo = 0
    /\ Lives = (IF Mode = "Endless" THEN 3 ELSE -1)
    /\ TimeLeft = (IF Mode = "Survival" THEN 60 ELSE -1)
    /\ Target = (IF Mode = "SpeedRun" THEN 50 ELSE -1)
    /\ Difficulty = 1
    /\ WrongAnswers = 0
    /\ CurrentQuestion = Null
    /\ StartTime = 0
    /\ colorPool = GetColorPool(1)
    /\ reactions = <<>>
    /\ now = 0
    /\ ret = Void

\* the clock advances between calls
Tick ==
    /\ now < MaxClock
    /\ now' = now + 1
    /\ UNCHANGED <<Mode, State, Score, TotalPoints, Combo, MaxCombo, Lives, TimeLeft,
                   Target, Difficulty, WrongAnswers, CurrentQuestion, StartTime,
                   colorPool, reactions, ret>>

Start ==
    /\ State' = "Active"
    /\ StartTime' = now
    /\ ret' = Void
    /\ UNCHANGED <<Mode, Score, TotalPoints, Combo, MaxCombo, Lives, TimeLeft, Target,
                   Difficulty, WrongAnswers, CurrentQuestion, colorPool, reactions, now>>

\* the elements of s that satisfy keep, in order (Where(...).ToList())
Where(s, keep(_)) == SelectSeq(s, keep)

\* rFont, rWord: results of _random.Next(n); picked: positions, in the shuffled
\* order, of the distractors that Take(3) keeps; fill: registry positions of the
\* fillers the loop accepts; order: the final shuffle of the four options
NextQuestion(rFont, rWord, picked, fill, order) ==
    IF State # "Active"
    THEN /\ ret' = Null
         /\ UNCHANGED <<Mode, State, Score, TotalPoints, Combo, MaxCombo, Lives, TimeLeft,
                        Target, Difficulty, WrongAnswers, CurrentQuestion, StartTime,
                        colorPool, reactions, now>>
    ELSE
      /\ rFont \in 0..(Len(colorPool) - 1)
      /\ \E fontColor \in {colorPool[rFont + 1]} :
         \E wordCandidates \in {Where(colorPool, LAMBDA c : c # fontColor)} :
           /\ rWord \in 0..(Max(Len(wordCandidates), 1) - 1)
           /\ \E textWord \in {IF Len(wordCandidates) > 0 THEN wordCandidates[rWord + 1]
                                                            ELSE "Black"} :
              \E distractors \in {Where(colorPool, LAMBDA c : c # fontColor /\ c # textWord)} :
                /\ Len(picked) = Min(3, Len(distractors))
                /\ \A i \in 1..Len(picked) : picked[i] \in 1..Len(distractors)
                /\ \A i, j \in 1..Len(picked) : i # j => picked[i] # picked[j]
                /\ \E taken \in {<<fontColor>> \o [i \in 1..Len(picked) |-> distractors[picked[i]]]} :
                     /\ Len(fill) = Max(0, 4 - Len(taken))
                     /\ \A i \in 1..Len(fill) : fill[i] \in 1..Len(Colors)
                     /\ \A i \in 1..Len(fill) : Colors[fill[i]] \notin Range(taken)
                     /\ \A i, j \in 1..Len(fill) : i # j => fill[i] # fill[j]
                     /\ \E filled \in {taken \o [i \in 1..Len(fill) |-> Colors[fill[i]]]} :
                          /\ Len(order) = Len(filled)
                          /\ Range(order) = 1..Len(filled)
                          /\ CurrentQuestion' =
                                [kind          |-> "question",
                                 TextWord      |-> ToUpper(textWord),
                                 FontColorName |-> fontColor,
                                 FontColorHex  |-> GetValueOrDefault(fontColor),
                                 Options       |-> [i \in 1..Len(filled) |-> filled[order[i]]]]
      /\ ret' = CurrentQuestion'
      /\ UNCHANGED <<Mode, State, Score, TotalPoints, Combo, MaxCombo, Lives, TimeLeft,
                     Target, Difficulty, WrongAnswers, StartTime, colorPool, reactions, now>>

\* variant: the thresholds are exclusive
ScaleDifficulty_Strict(score) ==
    IF score > 40 THEN 5
    ELSE IF score > 30 THEN 4
    ELSE IF score > 20 THEN 3
    ELSE IF score > 10 THEN 2
    ELSE 1

\* GameSession.ScaleDifficulty applied to a score
ScaleDifficulty(score) ==
    IF score >= 40 THEN 5
    ELSE IF score >= 30 THEN 4
    ELSE IF score >= 20 THEN 3
    ELSE IF score >= 10 THEN 2
    ELSE 1

\* variant: the check of State is missing
NoActiveQuestion_NoStateCheck == CurrentQuestion = Null

\* if (State != GameState.Active || CurrentQuestion == null)
NoActiveQuestion == State # "Active" \/ CurrentQuestion = Null

ErrorOutcome == [kind |-> "error", error |-> "No active question"]

\* variant: the comparison is case sensitive
IsCorrect_CaseSensitive(selectedColor) == CurrentQuestion.FontColorName = selectedColor

\* CurrentQuestion.FontColorName.Equals(selectedColor, OrdinalIgnoreCase)
IsCorrect(selectedColor) == EqualsIgnoreCase(CurrentQuestion.FontColorName, selectedColor)

\* The fields of the session after SubmitAnswer has accepted an answer.
ScoreAfter(correct) == IF correct THEN Score + 1 ELSE Score

ComboAfter(correct) == IF correct THEN Combo + 1 ELSE 0

MaxComboAfter(correct) == IF correct THEN Max(MaxCombo, ComboAfter(correct)) ELSE MaxCombo

\* variant: wrong answers are counted only where they cost a life
WrongAnswersAfter_EndlessOnly(correct) ==
    IF correct \/ Mode # "Endless" THEN WrongAnswers ELSE WrongAnswers + 1

WrongAnswersAfter(correct) == IF correct THEN WrongAnswers ELSE WrongAnswers + 1

\* ScoreCalculator.CalculatePoints, tabulated over the arguments a session passes
PointsTable ==
    [reactionTimeMs \in ReactionTimes, currentCombo \in 0..(MaxScore + 1), difficulty \in 1..5 |->
        CalculatePoints(reactionTimeMs, currentCombo, difficulty)]

\* variant: the points are computed before Combo is incremented
PointsEarned_ComboBefore(correct, reactionTimeMs) ==
    IF correct THEN PointsTable[reactionTimeMs, Combo, Difficulty] ELSE 0

\* pointsEarned = ScoreCalculator.CalculatePoints(reactionTimeMs, Combo, Difficulty)
PointsEarned(correct, reactionTimeMs) ==
    IF correct THEN PointsTable[reactionTimeMs, ComboAfter(correct), Difficulty] ELSE 0

\* variant: the penalty is not floored at 0
SpeedRunPenalty_NoFloor(totalPoints) == totalPoints - 5

\* case GameMode.SpeedRun: TotalPoints = Math.Max(0, TotalPoints - 5)
SpeedRunPenalty(totalPoints) == Max(0, totalPoints - 5)

TotalPointsAfter(correct, reactionTimeMs) ==
    IF correct THEN TotalPoints + PointsEarned(correct, reactionTimeMs)
    ELSE IF Mode = "SpeedRun" THEN SpeedRunPenalty(TotalPoints)
    ELSE TotalPoints

\* variant: a life is taken on every answer
LivesAfter_EveryAnswer(correct) == IF Mode = "Endless" THEN Lives - 1 ELSE Lives

LivesAfter(correct) == IF ~correct /\ Mode = "Endless" THEN Lives - 1 ELSE Lives

\* case GameMode.Survival: TimeLeft = Math.Max(0, TimeLeft - 3)
SurvivalPenalty(timeLeft) == Max(0, timeLeft - 3)

\* variant: the time changes in every mode
TimeLeftAfter_AnyMode(correct) ==
    IF correct THEN TimeLeft + 3 ELSE SurvivalPenalty(TimeLeft)

TimeLeftAfter(correct) ==
    IF Mode # "Survival" THEN TimeLeft
    ELSE IF correct THEN TimeLeft + 3
    ELSE SurvivalPenalty(TimeLeft)

\* if (Score % 5 == 0) ScaleDifficulty();
DifficultyAfter(correct) ==
    IF correct /\ ScoreAfter(correct) % 5 = 0 THEN ScaleDifficulty(ScoreAfter(correct))
    ELSE Difficulty

\* if (Mode == GameMode.SpeedRun && Score >= Target) State = GameState.Finished;
TargetReached(score) == Mode = "SpeedRun" /\ score >= Target

\* variant: the session ends one life too late
ResourceExhausted_Late(lives, timeLeft) ==
    \/ Mode = "Endless" /\ lives < 0
    \/ Mode = "Survival" /\ timeLeft <= 0

\* if (Lives <= 0) ... / if (TimeLeft <= 0) State = GameState.Finished;
ResourceExhausted(lives, timeLeft) ==
    \/ Mode = "Endless" /\ lives <= 0
    \/ Mode = "Survival" /\ timeLeft <= 0

StateAfter(correct) ==
    IF TargetReached(ScoreAfter(correct)) THEN "Finished"
    ELSE IF ~correct /\ ResourceExhausted(LivesAfter(correct), TimeLeftAfter(correct))
         THEN "Finished"
    ELSE State

SubmitAnswer(selectedColor, reactionTimeMs) ==
    IF NoActiveQuestion
    THEN /\ ret' = ErrorOutcome
         /\ UNCHANGED <<Mode, State, Score, TotalPoints, Combo, MaxCombo, Lives, TimeLeft,
                        Target, Difficulty, WrongAnswers, CurrentQuestion, StartTime,
                        colorPool, reactions, now>>
    ELSE \E correct \in {IsCorrect(selectedColor)} :
             /\ reactions' = Append(reactions, reactionTimeMs)
             /\ Score' = ScoreAfter(correct)
             /\ Combo' = ComboAfter(correct)
             /\ MaxCombo' = MaxComboAfter(correct)
             /\ TotalPoints' = TotalPointsAfter(correct, reactionTimeMs)
             /\ WrongAnswers' = WrongAnswersAfter(correct)
             /\ Lives' = LivesAfter(correct)
             /\ TimeLeft' = TimeLeftAfter(correct)
             /\ Difficulty' = DifficultyAfter(correct)
             /\ colorPool' = (IF correct /\ Score' % 5 = 0 THEN GetColorPool(Difficulty')
                                                            ELSE colorPool)
             /\ State' = StateAfter(correct)
             /\ ret' = [kind         |-> "outcome",
                        correct      |-> correct,
                        pointsEarned |-> PointsEarned(correct, reactionTimeMs),
                        totalPoints  |-> TotalPoints',
                        score        |-> Score',
                        combo        |-> Combo',
                        maxCombo     |-> MaxCombo',
                        lives        |-> Lives',
                        timeLeft     |-> TimeLeft',
                        isActive     |-> (State' = "Active")]
             /\ UNCHANGED <<Mode, Target, CurrentQuestion, StartTime, now>>

(***************************************************************************)
(* SessionResult and GetFinalReport                                        *)
(***************************************************************************)
RECURSIVE GCD(_, _)
GCD(a, b) == IF b = 0 THEN a ELSE GCD(b, a % b)

\* the quotient n / d of two non-negative integers as a fraction in lowest terms
Ratio(n, d) == [num |-> n \div GCD(n, d), den |-> d \div GCD(n, d)]

Less(x, k) == x.num < k * x.den

RECURSIVE SumTo(_, _)
SumTo(s, n) == IF n = 0 THEN 0 ELSE s[n] + SumTo(s, n - 1)
Sum(s) == SumTo(s, Len(s))

SeqMin(s) == CHOOSE x \in Range(s) : \A y \in Range(s) : x <= y
SeqMax(s) == CHOOSE x \in Range(s) : \A y \in Range(s) : x >= y

CalculateRating_EitherCondition(AvgReactionMs, CorrectAnswers) ==
    IF Less(AvgReactionMs, 400) \/ CorrectAnswers > 50 THEN "Legendary"
    ELSE IF Less(AvgReactionMs, 500) \/ CorrectAnswers > 40 THEN "Grandmaster"
    ELSE IF Less(AvgReactionMs, 600) \/ CorrectAnswers > 30 THEN "Master"
    ELSE IF Less(AvgReactionMs, 700) \/ CorrectAnswers > 25 THEN "Expert"
    ELSE IF Less(AvgReactionMs, 800) \/ CorrectAnswers > 20 THEN "Advanced"
    ELSE IF Less(AvgReactionMs, 1000) \/ CorrectAnswers > 15 THEN "Proficient"
    ELSE IF Less(AvgReactionMs, 1200) \/ CorrectAnswers > 10 THEN "Intermediate"
    ELSE IF Less(AvgReactionMs, 1500) \/ CorrectAnswers > 5 THEN "Beginner"
    ELSE "Trainee"

CalculateRating(AvgReactionMs, CorrectAnswers) ==
    IF Less(AvgReactionMs, 400) /\ CorrectAnswers > 50 THEN "Legendary"
    ELSE IF Less(AvgReactionMs, 500) /\ CorrectAnswers > 40 THEN "Grandmaster"
    ELSE IF Less(AvgReactionMs, 600) /\ CorrectAnswers > 30 THEN "Master"
    ELSE IF Less(AvgReactionMs, 700) /\ CorrectAnswers > 25 THEN "Expert"
    ELSE IF Less(AvgReactionMs, 800) /\ CorrectAnswers > 20 THEN "Advanced"
    ELSE IF Less(AvgReactionMs, 1000) /\ CorrectAnswers > 15 THEN "Proficient"
    ELSE IF Less(AvgReactionMs, 1200) /\ CorrectAnswers > 10 THEN "Intermediate"
    ELSE IF Less(AvgReactionMs, 1500) /\ CorrectAnswers > 5 THEN "Beginner"
    ELSE "Trainee"

\* PerformanceRater::getPerformanceRating (C++)
getPerformanceRating(avgReactionMs, score) ==
    IF Less(avgReactionMs, 400) /\ score > 50 THEN "Legendary"
    ELSE IF Less(avgReactionMs, 500) /\ score > 40 THEN "Grandmaster"
    ELSE IF Less(avgReactionMs, 600) /\ score > 30 THEN "Master"
    ELSE IF Less(avgReactionMs, 700) /\ score > 25 THEN "Expert"
    ELSE IF Less(avgReactionMs, 800) /\ score > 20 THEN "Advanced"
    ELSE IF Less(avgReactionMs, 1000) /\ score > 15 THEN "Proficient"
    ELSE IF Less(avgReactionMs, 1200) /\ score > 10 THEN "Intermediate"
    ELSE IF Less(avgReactionMs, 1500) /\ score > 5 THEN "Beginner"
    ELSE "Trainee"

\* SessionAnalyzer.getPerformanceRating (Java), avgRT and score being what
\* getAverageReactionTime() and comboTracker.getTotalCorrect() return
SessionAnalyzer_getPerformanceRating(avgRT, score) ==
    IF Less(avgRT, 400) /\ score > 50 THEN "Legendary"
    ELSE IF Less(avgRT, 500) /\ score > 40 THEN "Grandmaster"
    ELSE IF Less(avgRT, 600) /\ score > 30 THEN "Master"
    ELSE IF Less(avgRT, 700) /\ score > 25 THEN "Expert"
    ELSE IF Less(avgRT, 800) /\ score > 20 THEN "Advanced"
    ELSE IF Less(avgRT, 1000) /\ score > 15 THEN "Proficient"
    ELSE IF Less(avgRT, 1200) /\ score > 10 THEN "Intermediate"
    ELSE IF Less(avgRT, 1500) /\ score > 5 THEN "Beginner"
    ELSE "Trainee"

CalculateCoins(totalPoints) == IntDiv(totalPoints, 100)
CalculateStars(correctAnswers) == IntDiv(correctAnswers, 10)

\* ScoringEngine::calculateCoins and calculateStars (C++)
calculateCoins(totalPoints) == IntDiv(totalPoints, 100)
calculateStars(correctAnswers) == IntDiv(correctAnswers, 10)

FinalReport ==
    LET elapsed      == now - StartTime
        avgRT        == IF Len(reactions) > 0 THEN Ratio(Sum(reactions), Len(reactions))
                                              ELSE Ratio(0, 1)
        totalAnswers == Score + WrongAnswers
    IN  [kind            |-> "report",
         Mode            |-> Mode,
         TotalPoints     |-> TotalPoints,
         CorrectAnswers  |-> Score,
         WrongAnswers    |-> WrongAnswers,
         MaxCombo        |-> MaxCombo,
         AvgReactionMs   |-> avgRT,
         FastestReaction |-> IF Len(reactions) > 0 THEN SeqMin(reactions) ELSE 0,
         SlowestReaction |-> IF Len(reactions) > 0 THEN SeqMax(reactions) ELSE 0,
         ElapsedSeconds  |-> elapsed,
         Accuracy        |-> IF totalAnswers > 0 THEN Ratio(Score * 100, totalAnswers)
                                                 ELSE Ratio(0, 1),
         CoinsEarned     |-> CalculateCoins(TotalPoints),
         StarsEarned     |-> CalculateStars(Score),
         Rating          |-> CalculateRating(avgRT, Score)]

GetFinalReport ==
    /\ ret' = FinalReport
    /\ UNCHANGED <<Mode, State, Score, TotalPoints, Combo, MaxCombo, Lives, TimeLeft,
                   Target, Difficulty, WrongAnswers, CurrentQuestion, StartTime,
                   colorPool, reactions, now>>

(***************************************************************************)
(* The session specification                                               *)
(***************************************************************************)
\* the reaction times offered for the next answer
ReactionInputs == IF Len(reactions) < MaxVaried THEN ReactionTimes ELSE {SteadyReaction}

\* the colour names offered as the next answer
AnswerInputs ==
    IF CurrentQuestion = Null THEN {"Red", "WrongColor"}
    ELSE LET i == CHOOSE k \in 1..Len(Colors) : Colors[k] = CurrentQuestion.FontColorName
             w == CHOOSE k \in 1..Len(Colors) : UpperNames[k] = CurrentQuestion.TextWord
         IN  {Colors[i], UpperNames[i], LowerNames[i], Colors[w], "WrongColor"}

\* the modes in which runs of more than MaxMixed correct answers are explored
LongRunModes == {"SpeedRun"}

\* the answers the exploration accepts
WithinBounds(selectedColor) ==
    IF NoActiveQuestion THEN TRUE
    ELSE \E correct \in {IsCorrect(selectedColor)} :
            LET s == ScoreAfter(correct)
                w == WrongAnswersAfter(correct)
            IN  /\ s <= MaxScore
                /\ w <= MaxWrong
                /\ s <= MaxMixed \/ (w <= MaxMixed /\ Mode \in LongRunModes)

\* the random draws explored inside a session
Draw(n) == 0..(Min(n, MaxRandom) - 1)
FirstPicks == {[i \in 1..k |-> i] : k \in 2..3}
Fills == {<<>>} \cup {<<i>> : i \in 1..(3 + MaxRandom)}
Unshuffled == <<1, 2, 3, 4>>

OtherIdle ==
    /\ calc = [phase |-> "off"]
    /\ tracker = [phase |-> "off"]
    /\ answers = <<>>
    /\ client = [phase |-> "off"]

Init == SessionInit /\ OtherIdle

Next ==
    \/ Tick /\ UNCHANGED <<calc, tracker, answers, client>>
    \/ Start /\ UNCHANGED <<calc, tracker, answers, client>>
    \/ \E rFont \in Draw(Len(colorPool)), rWord \in Draw(Len(colorPool) - 1),
          picked \in FirstPicks, fill \in Fills :
            NextQuestion(rFont, rWord, picked, fill, Unshuffled) /\ UNCHANGED <<calc, tracker, answers, client>>
    \/ \E selectedColor \in AnswerInputs, reactionTimeMs \in ReactionInputs :
            /\ WithinBounds(selectedColor)
            /\ SubmitAnswer(selectedColor, reactionTimeMs)
            /\ UNCHANGED <<calc, tracker, answers, client>>
    \/ GetFinalReport /\ UNCHANGED <<calc, tracker, answers, client>>

Spec == Init /\ [][Next]_vars

(***************************************************************************)
(* The point calculators on bounded inputs                                 *)
(***************************************************************************)
PointsReactionTimes == {0, 300, 500, 1850, 1999, 2000, 2050, 2500}

NotComputed == -1

PointsInit ==
    /\ SessionInit
    /\ Mode = "Endless"
    /\ calc \in [phase : {"on"}, reactionTimeMs : PointsReactionTimes,
                 currentCombo : 0..MaxComboIn, difficulty : 1..5,
                 csharp : {NotComputed}, cpp : {NotComputed}, java : {NotComputed}]
    /\ tracker = [phase |-> "off"]
    /\ answers = <<>>
    /\ client = [phase |-> "off"]

\* ScoreCalculator.CalculatePoints(reactionTimeMs, currentCombo, difficulty) is called
CallCalculatePoints ==
    /\ calc.phase = "on"
    /\ calc.csharp = NotComputed
    /\ calc' = [calc EXCEPT !.csharp =
                    CalculatePoints(calc.reactionTimeMs, calc.currentCombo, calc.difficulty)]
    /\ UNCHANGED <<sessionVars, tracker, answers, client>>

\* ScoringEngine::calculatePoints(reactionTimeMs, currentCombo, difficulty) is called
CallCppCalculatePoints ==
    /\ calc.phase = "on"
    /\ calc.cpp = NotComputed
    /\ calc' = [calc EXCEPT !.cpp =
                    calculatePoints(calc.reactionTimeMs, calc.currentCombo, calc.difficulty)]
    /\ UNCHANGED <<sessionVars, tracker, answers, client>>

\* SessionAnalyzer.calculatePoints(reactionTimeMs, combo, difficulty) is called
CallJavaCalculatePoints ==
    /\ calc.phase = "on"
    /\ calc.java = NotComputed
    /\ calc' = [calc EXCEPT !.java =
                    SessionAnalyzer_calculatePoints(calc.reactionTimeMs, calc.currentCombo, calc.difficulty)]
    /\ UNCHANGED <<sessionVars, tracker, answers, client>>

NextPoints == CallCalculatePoints \/ CallCppCalculatePoints \/ CallJavaCalculatePoints

SpecPoints == PointsInit /\ [][NextPoints]_vars

(***************************************************************************)
(* The performance raters applied to bounded inputs                        *)
(***************************************************************************)
\* average reaction times (ms, as fractions) and correct counts around every threshold
RatingAverages ==
    {Ratio(n, 1) : n \in {0, 399, 400, 450, 499, 500, 599, 600, 699, 700, 799, 800,
                          999, 1000, 1199, 1200, 1499, 1500, 2000}}
        \cup {Ratio(799, 2), Ratio(2999, 2)}
RatingScores == {0, 5, 6, 10, 11, 15, 16, 20, 21, 25, 26, 30, 31, 40, 41, 45, 50, 51, 60}

NotRated == "NotRated"

RatingInit ==
    /\ SessionInit
    /\ Mode = "Endless"
    /\ calc \in [phase : {"rating"}, avgReactionMs : RatingAverages, score : RatingScores,
                 answered : BOOLEAN, csharp : {NotRated}, cpp : {NotRated},
                 java : {NotRated}, client : {NotRated}]
    \* a game without any answer has score 0, and its average is reported as 0
    /\ ~calc.answered => (calc.score = 0 /\ calc.avgReactionMs = Ratio(0, 1))
    /\ tracker = [phase |-> "off"]
    /\ answers = <<>>
    /\ client = [phase |-> "off"]

\* SessionResult.CalculateRating() on a result with these AvgReactionMs and CorrectAnswers
CallCalculateRating ==
    /\ calc.phase = "rating"
    /\ calc.csharp = NotRated
    /\ calc' = [calc EXCEPT !.csharp = CalculateRating(calc.avgReactionMs, calc.score)]
    /\ UNCHANGED <<sessionVars, tracker, answers, client>>

\* PerformanceRater::getPerformanceRating(avgReactionMs, score) is called
CallCppGetPerformanceRating ==
    /\ calc.phase = "rating"
    /\ calc.cpp = NotRated
    /\ calc' = [calc EXCEPT !.cpp = getPerformanceRating(calc.avgReactionMs, calc.score)]
    /\ UNCHANGED <<sessionVars, tracker, answers, client>>

\* SessionAnalyzer.getPerformanceRating() is called
CallJavaGetPerformanceRating ==
    /\ calc.phase = "rating"
    /\ calc.java = NotRated
    /\ calc' = [calc EXCEPT !.java =
                    SessionAnalyzer_getPerformanceRating(calc.avgReactionMs, calc.score)]
    /\ UNCHANGED <<sessionVars, tracker, answers, client>>

\* (x).toFixed(0) read back as a number, for x >= 0: the nearest integer, the larger
\* one of two
JsToFixed0(x) == JsFloorDiv(2 * x.num + x.den, 2 * x.den)

\* const avgRT = reactions.length > 0 ? (sum / reactions.length).toFixed(0) : 'N/A'
\* as the comparisons below read it: 'N/A' converts to NaN
ClientAvgRT(answered, mean) ==
    IF answered THEN [nan |-> FALSE, value |-> JsToFixed0(mean)]
    ELSE [nan |-> TRUE, value |-> 0]

\* avgRT < k in JavaScript: false for NaN
JsLess(avgRT, k) == ~avgRT.nan /\ avgRT.value < k

\* the rating finishRefinedConfusion displays and sends (app.js)
ClientRating(avgRT, score) ==
    IF JsLess(avgRT, 600) /\ score > 40 THEN "Grandmaster"
    ELSE IF JsLess(avgRT, 800) /\ score > 25 THEN "Expert"
    ELSE IF JsLess(avgRT, 1000) /\ score > 15 THEN "Advanced"
    ELSE "Trainee"

\* finishRefinedConfusion on a game with this mean reaction time and score
CallClientRating ==
    /\ calc.phase = "rating"
    /\ calc.client = NotRated
    /\ calc' = [calc EXCEPT !.client =
                    ClientRating(ClientAvgRT(calc.answered, calc.avgReactionMs), calc.score)]
    /\ UNCHANGED <<sessionVars, tracker, answers, client>>

NextRating ==
    \/ CallCalculateRating
    \/ CallCppGetPerformanceRating
    \/ CallJavaGetPerformanceRating
    \/ CallClientRating

SpecRating == RatingInit /\ [][NextRating]_vars

(***************************************************************************)
(* The question generators applied to every outcome of their random draws  *)
(***************************************************************************)
MaxShuffles == 6   \* outcomes of the final shuffle of the options

\* _colorPool.Where(c => c != fontColor)
WordCandidates_Unfiltered(pool, fontColor) == pool

WordCandidates(pool, fontColor) == Where(pool, LAMBDA c : c # fontColor)

\* variant: the displayed word can be a distractor
Distractors_WordAllowed(pool, fontColor, textWord) ==
    Where(pool, LAMBDA c : c # fontColor)

\* _colorPool.Where(c => c != fontColor && c != textWord)
Distractors(pool, fontColor, textWord) ==
    Where(pool, LAMBDA c : c # fontColor /\ c # textWord)

\* if (!options.Contains(filler)) options.Add(filler)
FillerAccepted_Always(options, filler) == TRUE

FillerAccepted(options, filler) == filler \notin Range(options)

\* the question GameSession.NextQuestion builds from pool when its random draws
\* come out as rFont, rWord, picked, fill and order (as in NextQuestion above)
NextQuestionResult(pool, rFont, rWord, picked, fill, order) ==
    LET fontColor      == pool[rFont + 1]
        wordCandidates == WordCandidates(pool, fontColor)
        textWord       == IF Len(wordCandidates) > 0 THEN wordCandidates[rWord + 1] ELSE "Black"
        distractors    == Distractors(pool, fontColor, textWord)
        taken          == <<fontColor>> \o [i \in 1..Len(picked) |-> distractors[picked[i]]]
        filled         == taken \o [i \in 1..Len(fill) |-> Colors[fill[i]]]
    IN  [kind          |-> "question",
         TextWord      |-> ToUpper(textWord),
         FontColorName |-> fontColor,
         FontColorHex  |-> GetValueOrDefault(fontColor),
         Options       |-> [i \in 1..Len(filled) |-> filled[order[i]]]]

\* StroopValidator.getColorPoolForDifficulty (Java)
getColorPoolForDifficulty(difficulty) ==
    LET allColors == Colors
        count     == Min(Len(allColors), 4 + (difficulty - 1) * 2)
    IN  SubSeq(allColors, 1, count)

\* the question StroopValidator.generateQuestion (Java) builds from colorPool
generateQuestion(pool, rFont, rWord, picked, fill, order) ==
    LET fontColor      == pool[rFont + 1]
        wordCandidates == SelectSeq(pool, LAMBDA c : c # fontColor)
        textWord       == IF wordCandidates = <<>> THEN "Black" ELSE wordCandidates[rWord + 1]
        distractors    == SelectSeq(pool, LAMBDA c : c # fontColor /\ c # textWord)
        taken          == <<fontColor>> \o [i \in 1..Len(picked) |-> distractors[picked[i]]]
        filled         == taken \o [i \in 1..Len(fill) |-> Colors[fill[i]]]
    IN  [kind          |-> "question",
         TextWord      |-> ToUpper(textWord),
         FontColorName |-> fontColor,
         FontColorHex  |-> GetValueOrDefault(fontColor),
         Options       |-> [i \in 1..Len(filled) |-> filled[order[i]]]]

\* the client's colour list
WORD_LIST == <<"Red", "Blue", "Green", "Yellow", "Purple", "Orange">>

\* COLOR_HEX[name] for the names of WORD_LIST
COLOR_HEX(name) ==
    IF name = "Purple" THEN "#a855f7" ELSE GetValueOrDefault(name)

\* the question ask() renders (app.js) when Math.random() yields the list positions
\* rFont and rText, the while loop accepts the distractors at positions picked, and
\* the sort with a random comparator leaves the options in the order given
ask(rFont, rText, picked, order) ==
    LET fontColorName == WORD_LIST[rFont + 1]
        drawn         == WORD_LIST[rText + 1]
        others        == SelectSeq(WORD_LIST, LAMBDA c : c # fontColorName)
        textColorName == IF drawn = fontColorName
                         THEN (IF others # <<>> THEN others[1] ELSE "Black")
                         ELSE drawn
        distractors   == SelectSeq(WORD_LIST,
                                   LAMBDA c : c # fontColorName /\ c # textColorName)
        options       == <<fontColorName>> \o [i \in 1..Len(picked) |-> distractors[picked[i]]]
    IN  [kind          |-> "question",
         TextWord      |-> ToUpper(textColorName),
         FontColorName |-> fontColorName,
         FontColorHex  |-> COLOR_HEX(fontColorName),
         Options       |-> [i \in 1..Len(options) |-> options[order[i]]]]

\* the sequences of k pairwise different elements of S
InjectiveSeqs(S, k) ==
    {p \in [1..k -> S] : \A i, j \in 1..k : i # j => p[i] # p[j]}

\* the registry positions the fill loop can accept, in order, until there are 4 options
RECURSIVE AcceptedFills(_)
AcceptedFills(options) ==
    IF Len(options) >= 4 THEN {<<>>}
    ELSE UNION {{<<f>> \o rest : rest \in AcceptedFills(Append(options, Colors[f]))} :
                   f \in {g \in 1..Len(Colors) : FillerAccepted(options, Colors[g])}}

\* the orders the final shuffle is explored with: the first MaxShuffles
\* permutations of four options, in lexicographic order
ShuffleKey(p) == ((p[1] * 10 + p[2]) * 10 + p[3]) * 10 + p[4]
Shuffles ==
    LET all == InjectiveSeqs(1..4, 4)
    IN  {p \in all : Cardinality({q \in all : ShuffleKey(q) < ShuffleKey(p)}) < MaxShuffles}

\* difficulties 1..5 are the ones ScaleDifficulty produces
QuestionDifficulties == 1..5

\* variant: only two distractors are taken
PickOrders_TakeTwo == [k \in 2..(Len(Colors) - 2) |-> InjectiveSeqs(1..k, Min(2, k))]

\* the ways OrderBy(random).Take(3) can pick among k distractors: PickOrders[k]
PickOrders == [k \in 2..(Len(Colors) - 2) |-> InjectiveSeqs(1..k, Min(3, k))]

\* the random draws of a server-side generator and the question not yet generated
ServerDraw(impl, difficulty, rFont, rWord, picked, fill, order) ==
    [phase |-> "question", impl |-> impl, difficulty |-> difficulty,
     rFont |-> rFont, rWord |-> rWord, picked |-> picked, fill |-> fill,
     order |-> order, question |-> Null]

\* every outcome of the draws of the server-side generators on the pool of a difficulty
ServerDraws(impl, pool) ==
    \E difficulty \in QuestionDifficulties :
        /\ pool = (IF impl = "java" THEN getColorPoolForDifficulty(difficulty)
                                    ELSE GetColorPool(difficulty))
        /\ \E rFont \in 0..(Len(pool) - 1), rWord \in 0..(Len(pool) - 2),
              picked \in PickOrders[Len(pool) - 2], order \in Shuffles :
             \E distractors \in {Distractors(pool, pool[rFont + 1],
                                              WordCandidates(pool, pool[rFont + 1])[rWord + 1])} :
             \E fill \in AcceptedFills(<<pool[rFont + 1]>> \o
                                        [i \in 1..Len(picked) |-> distractors[picked[i]]]) :
                calc = ServerDraw(impl, difficulty, rFont, rWord, picked, fill, order)

\* every outcome of the draws of the client's ask()
ClientDraws ==
    \E rFont \in 0..(Len(WORD_LIST) - 1), rText \in 0..(Len(WORD_LIST) - 1),
       picked \in PickOrders[4], order \in Shuffles :
        calc = [phase |-> "question", impl |-> "client", difficulty |-> 1,
                rFont |-> rFont, rWord |-> rText, picked |-> picked, fill |-> <<>>,
                order |-> order, question |-> Null]

QuestionPools == {GetColorPool(d) : d \in QuestionDifficulties}

QuestionInit ==
    /\ SessionInit
    /\ Mode = "Endless"
    /\ \/ \E impl \in {"csharp", "java"}, pool \in QuestionPools : ServerDraws(impl, pool)
       \/ ClientDraws
    /\ tracker = [phase |-> "off"]
    /\ answers = <<>>
    /\ client = [phase |-> "off"]

\* session.NextQuestion() with these draws
GenerateCsharp ==
    /\ calc.phase = "question" /\ calc.impl = "csharp" /\ calc.question = Null
    /\ calc' = [calc EXCEPT !.question =
                    NextQuestionResult(GetColorPool(calc.difficulty), calc.rFont, calc.rWord,
                                       calc.picked, calc.fill, calc.order)]
    /\ UNCHANGED <<sessionVars, tracker, answers, client>>

\* validator.generateQuestion() with these draws
GenerateJava ==
    /\ calc.phase = "question" /\ calc.impl = "java" /\ calc.question = Null
    /\ calc' = [calc EXCEPT !.question =
                    generateQuestion(getColorPoolForDifficulty(calc.difficulty), calc.rFont,
                                     calc.rWord, calc.picked, calc.fill, calc.order)]
    /\ UNCHANGED <<sessionVars, tracker, answers, client>>

\* ask() with these draws
GenerateClient ==
    /\ calc.phase = "question" /\ calc.impl = "client" /\ calc.question = Null
    /\ calc' = [calc EXCEPT !.question = ask(calc.rFont, calc.rWord, calc.picked, calc.order)]
    /\ UNCHANGED <<sessionVars, tracker, answers, client>>

NextGenerate == GenerateCsharp \/ GenerateJava \/ GenerateClient

SpecQuestion == QuestionInit /\ [][NextGenerate]_vars

(***************************************************************************)
(* StroopRanker (C++) and the Memory Master ranking utility                *)
(***************************************************************************)
MaxScores == 4   \* records stored in the ranker

\* x < y for two fractions
RatioLess(x, y) == x.num * y.den < y.num * x.den

\* the PlayerScore records fed to addScore (the fields the ranking reads and copies);
\* avgReactionMs is a decimal fraction
PlayerScore(username, mode, totalPoints, tenths, rating) ==
    [username |-> username, mode |-> mode, totalPoints |-> totalPoints,
     avgReactionMs |-> Ratio(tenths, 10), rating |-> rating]

SampleScores ==
    {PlayerScore("CipherMaster", "endless", 1240, 452, "Expert"),
     PlayerScore("QuantumMind", "endless", 1240, 421, "Grandmaster"),
     PlayerScore("MasterPlayer", "endless", 950, 500, "Proficient"),
     PlayerScore("NexusBrain", "endless", 1240, 421, "Advanced"),
     PlayerScore("StroopKing", "survival", 2100, 380, "Legendary"),
     PlayerScore("BrainWave", "speed", 950, 452, "Master")}

ModeFilters == {"", "endless", "survival", "speed"}

RankerInit ==
    /\ SessionInit
    /\ Mode = "Endless"
    /\ calc = [phase |-> "ranker", scores |-> <<>>, sortedAs |-> {}, ret |-> Void]
    /\ tracker = [phase |-> "off"]
    /\ answers = <<>>
    /\ client = [phase |-> "off"]

\* the inputs of std::sort that can still occur once scores is stored (records are
\* only ever appended, so the others cannot be sorted again)
StillSortable(sortedAs, scores) ==
    {m \in sortedAs : \E modeFilter \in ModeFilters :
        m.input = SelectSeq(scores, LAMBDA sc : modeFilter = "" \/ sc.mode = modeFilter)}

addScore(score) ==
    /\ calc.phase = "ranker"
    /\ Len(calc.scores) < MaxScores
    /\ calc' = [calc EXCEPT !.scores = Append(calc.scores, score),
                            !.sortedAs = StillSortable(calc.sortedAs, Append(calc.scores, score)),
                            !.ret = Void]
    /\ UNCHANGED <<sessionVars, tracker, answers, client>>

\* the comparison lambda of getRankings: a goes before b
RankBefore_SlowerFirst(a, b) ==
    IF a.totalPoints # b.totalPoints THEN a.totalPoints > b.totalPoints
    ELSE RatioLess(b.avgReactionMs, a.avgReactionMs)

RankBefore(a, b) ==
    IF a.totalPoints # b.totalPoints THEN a.totalPoints > b.totalPoints
    ELSE RatioLess(a.avgReactionMs, b.avgReactionMs)

\* the orders std::sort may leave s in: every arrangement of the elements of s in
\* which no element goes before its predecessor (equivalent elements in any order)
\* the arrangements of the positions rem, to follow position last (0: none), in which
\* no position goes before its predecessor; lt[i][j] says that i goes before j
RECURSIVE SortedOrders(_, _, _)
SortedOrders(lt, rem, last) ==
    IF rem = {} THEN {<<>>}
    ELSE UNION {{<<i>> \o rest : rest \in SortedOrders(lt, rem \ {i}, i)} :
                    i \in {j \in rem : last = 0 \/ ~lt[j][last]}}

StdSort(s, before(_, _)) ==
    LET lt == [i \in 1..Len(s) |-> [j \in 1..Len(s) |-> before(s[i], s[j])]]
    IN  {[k \in 1..Len(s) |-> s[p[k]]] : p \in SortedOrders(lt, 1..Len(s), 0)}

\* the percentile of the entry at 0-based position i of totalPlayers entries
Percentile_RankOverCount(totalPlayers, i) ==
    IF totalPlayers > 1
    THEN DoubleMul(DoubleDiv(DoubleOfInt(totalPlayers - i), DoubleOfInt(totalPlayers)),
                   DoubleOfInt(100))
    ELSE DoubleOfInt(100)

Percentile(totalPlayers, i) ==
    IF totalPlayers > 1
    THEN DoubleMul(DoubleDiv(DoubleOfInt(totalPlayers - i - 1), DoubleOfInt(totalPlayers - 1)),
                   DoubleOfInt(100))
    ELSE DoubleOfInt(100)

\* variant: an empty filter matches no record
FilterByMode_ExactOnly(scores, modeFilter) ==
    SelectSeq(scores, LAMBDA sc : sc.mode = modeFilter)

\* if (modeFilter.empty() || s.mode == modeFilter) filtered.push_back(s)
FilterByMode(scores, modeFilter) ==
    SelectSeq(scores, LAMBDA sc : modeFilter = "" \/ sc.mode = modeFilter)

\* variant: the order of equivalent records is chosen anew at every call
SortOutcomes_PerCall(sortedAs, filtered) == StdSort(filtered, RankBefore)

\* std::sort(filtered.begin(), filtered.end(), ...): the order of equivalent records
\* is unspecified, but std::sort is a function of its input: the order it left an
\* input in (sortedAs) is the order it leaves that input in at every later call
SortOutcomes(sortedAs, filtered) ==
    IF \E m \in sortedAs : m.input = filtered
    THEN {m.output : m \in {n \in sortedAs : n.input = filtered}}
    ELSE StdSort(filtered, RankBefore)

\* sortedAs after std::sort has left filtered as sorted (inputs with one possible
\* order need no entry)
Remembered(sortedAs, filtered, sorted) ==
    IF Cardinality(StdSort(filtered, RankBefore)) > 1
    THEN sortedAs \cup {[input |-> filtered, output |-> sorted]}
    ELSE sortedAs

\* getRankings(modeFilter), std::sort leaving the filtered records in the order sorted
\* the percentiles of a ranking of N entries, by 0-based position
Percentiles == [N \in 1..MaxScores |-> [i \in 0..(N - 1) |-> Percentile(N, i)]]

getRankings(modeFilter) ==
    /\ calc.phase = "ranker"
    /\ \E filtered \in {FilterByMode(calc.scores, modeFilter)} :
         \E sorted \in SortOutcomes(calc.sortedAs, filtered) :
            calc' = [calc EXCEPT !.sortedAs = Remembered(calc.sortedAs, filtered, sorted), !.ret =
                [kind       |-> "rankings",
                 modeFilter |-> modeFilter,
                 entries    |-> [k \in 1..Len(sorted) |->
                                  [rank          |-> k,
                                   username      |-> sorted[k].username,
                                   totalPoints   |-> sorted[k].totalPoints,
                                   avgReactionMs |-> sorted[k].avgReactionMs,
                                   rating        |-> sorted[k].rating,
                                   percentile    |-> Percentiles[Len(sorted)][k - 1]]]]]
    /\ UNCHANGED <<sessionVars, tracker, answers, client>>

\* the points calculatePercentile is asked about
PercentileQueries == {900, 950, 1240, 2100, 2500}

\* StroopRanker::calculatePercentile on the stored records
calculatePercentile_CountsEqual(scores, playerPoints) ==
    IF scores = <<>> THEN DoubleOfInt(100)
    ELSE LET belowCount == Cardinality({k \in 1..Len(scores) :
                                           scores[k].totalPoints <= playerPoints})
         IN  DoubleMul(DoubleDiv(DoubleOfInt(belowCount), DoubleOfInt(Len(scores))),
                       DoubleOfInt(100))

calculatePercentile_EmptyIsZero(scores, playerPoints) ==
    LET belowCount == Cardinality({k \in 1..Len(scores) :
                                      scores[k].totalPoints < playerPoints})
    IN  IF scores = <<>> THEN DoubleOfInt(0)
        ELSE DoubleMul(DoubleDiv(DoubleOfInt(belowCount), DoubleOfInt(Len(scores))),
                       DoubleOfInt(100))

calculatePercentile(scores, playerPoints) ==
    IF scores = <<>> THEN DoubleOfInt(100)
    ELSE LET belowCount == Cardinality({k \in 1..Len(scores) :
                                           scores[k].totalPoints < playerPoints})
         IN  DoubleMul(DoubleDiv(DoubleOfInt(belowCount), DoubleOfInt(Len(scores))),
                       DoubleOfInt(100))

CallCalculatePercentile(playerPoints) ==
    /\ calc.phase = "ranker"
    /\ calc' = [calc EXCEPT !.ret = [kind         |-> "percentile",
                                      playerPoints |-> playerPoints,
                                      value        |-> calculatePercentile(calc.scores,
                                                                           playerPoints)]]
    /\ UNCHANGED <<sessionVars, tracker, answers, client>>

\* the double a PlayerScore holds for avgReactionMs
ReactionDouble(avgReactionMs) ==
    DoubleDiv(DoubleOfInt(avgReactionMs.num), DoubleOfInt(avgReactionMs.den))

\* |x - y| for two doubles
DoubleAbsDiff(x, y) == IF DoubleLess(x, y) THEN DoubleSub(y, x) ELSE DoubleSub(x, y)

\* the double sum of the first n elements of a sequence of doubles, added in order
RECURSIVE DoubleSumTo(_, _)
DoubleSumTo(d, n) == IF n = 0 THEN DoubleOfInt(0) ELSE DoubleAdd(DoubleSumTo(d, n - 1), d[n])

\* the median getStatistics takes from the sorted points
Median_UpperMiddle(allPoints) ==
    DoubleOfInt(allPoints[(Len(allPoints) \div 2) + 1])

Median(allPoints) ==
    LET mid == Len(allPoints) \div 2
    IN  IF Len(allPoints) % 2 = 0
        THEN DoubleDiv(DoubleOfInt(allPoints[mid] + allPoints[mid + 1]), DoubleOfInt(2))
        ELSE DoubleOfInt(allPoints[mid + 1])

\* (p - mean)^2 for each of the points
SquaredDiffs(allPoints, mean) ==
    [k \in 1..Len(allPoints) |->
        DoubleMul(DoubleAbsDiff(DoubleOfInt(allPoints[k]), mean),
                  DoubleAbsDiff(DoubleOfInt(allPoints[k]), mean))]

\* sumPoints / scores.size(); the sum of the points is exact in any order
MeanScore(points) ==
    DoubleDiv(DoubleSumTo([k \in 1..Len(points) |-> DoubleOfInt(points[k])], Len(points)),
              DoubleOfInt(Len(points)))

\* sumSquaredDiff / scores.size()
Variance(allPoints, mean) ==
    DoubleDiv(DoubleSumTo(SquaredDiffs(allPoints, mean), Len(allPoints)),
              DoubleOfInt(Len(allPoints)))

\* std::sqrt(sumSquaredDiff / scores.size()) over the sorted points
StdDev(allPoints) == DoubleSqrt(Variance(allPoints, MeanScore(allPoints)))

\* the sorted points the sample records can give, with their means, variances and
\* standard deviations, each computed from the one before as in StdDev
SortedPoints ==
    {s \in UNION {[1..n -> {sc.totalPoints : sc \in SampleScores}] : n \in 1..MaxScores} :
        \A k \in 1..(Len(s) - 1) : s[k] <= s[k + 1]}
Means == {[allPoints |-> allPoints, mean |-> MeanScore(allPoints)] : allPoints \in SortedPoints}
Variances ==
    {[allPoints |-> m.allPoints, variance |-> Variance(m.allPoints, m.mean)] : m \in Means}
StdDevs ==
    {[allPoints |-> v.allPoints, stdDev |-> DoubleSqrt(v.variance)] : v \in Variances}

\* the Stats of n > 0 records, given their points in stored order, the sorted
\* points and the sum of the reaction times
StatsOf(n, points, allPoints, sumRT) ==
    [meanScore      |-> MeanScore(points),
     medianScore    |-> Median(allPoints),
     meanReactionMs |-> DoubleDiv(sumRT, DoubleOfInt(n)),
     stdDevScore    |-> (CHOOSE d \in StdDevs : d.allPoints = allPoints).stdDev,
     totalGames     |-> n]

\* StroopRanker::getStatistics on the stored records
Stats(scores) ==
    IF scores = <<>>
    THEN [meanScore |-> DoubleOfInt(0), medianScore |-> DoubleOfInt(0),
          meanReactionMs |-> DoubleOfInt(0), stdDevScore |-> DoubleOfInt(0), totalGames |-> 0]
    ELSE LET n      == Len(scores)
             points == [k \in 1..n |-> scores[k].totalPoints]
         IN  StatsOf(n, points,
                     CHOOSE sorted \in StdSort(points, LAMBDA x, y : x < y) : TRUE,
                     DoubleSumTo([k \in 1..n |-> ReactionDouble(scores[k].avgReactionMs)], n))

getStatistics ==
    /\ calc.phase = "ranker"
    /\ calc' = [calc EXCEPT !.ret = [kind |-> "stats", stats |-> Stats(calc.scores)]]
    /\ UNCHANGED <<sessionVars, tracker, answers, client>>

\* comparePlayers of the Memory Master utility
comparePlayers(a, b) ==
    IF a.score # b.score THEN a.score > b.score ELSE RatioLess(a.time, b.time)

\* std::sort(players.begin(), players.end(), comparePlayers) on the stored records
\* read as players (name, score, time)
sortPlayers ==
    /\ calc.phase = "ranker"
    /\ calc.scores # <<>>
    /\ \E players \in {[k \in 1..Len(calc.scores) |->
                           [name  |-> calc.scores[k].username,
                            score |-> calc.scores[k].totalPoints,
                            time  |-> calc.scores[k].avgReactionMs]]} :
         \E sorted \in StdSort(players, comparePlayers) :
            calc' = [calc EXCEPT !.ret = [kind |-> "players", players |-> sorted]]
    /\ UNCHANGED <<sessionVars, tracker, answers, client>>

NextRanker ==
    \/ \E score \in SampleScores : addScore(score)
    \/ \E modeFilter \in ModeFilters : getRankings(modeFilter)
    \/ sortPlayers
    \/ \E playerPoints \in PercentileQueries : CallCalculatePercentile(playerPoints)
    \/ getStatistics

SpecRanker == RankerInit /\ [][NextRanker]_vars

(***************************************************************************)
(* The browser game: startConfusionMode and finishRefinedConfusion (app.js) *)
(***************************************************************************)
MaxClientScore == 12   \* correct clicks explored per game (51 in speed mode)
MaxClientWrong == 4    \* wrong clicks explored per game
MaxClientMixed == 2    \* wrong clicks mixed into a run of correct ones
MaxPending     == 2    \* delayed ask() callbacks pending at once
MaxTicks       == 3    \* survival: timer callbacks explored per game

ClientModes == {"endless", "survival", "speed"}

\* the balances state.coins and state.stars a game starts with
StartBalances == {0, 7}

\* the draws of ask() explored inside a game
ClientPicks == <<1, 2, 3>>

\* startConfusionMode(mode): the closure variables, the first ask() done
ClientInit ==
    /\ SessionInit
    /\ Mode = "Endless"
    /\ calc = [phase |-> "off"]
    /\ tracker = [phase |-> "off"]
    /\ answers = <<>>
    /\ \E mode \in ClientModes, balance \in StartBalances, rFont \in Draw(Len(WORD_LIST)),
          rText \in Draw(Len(WORD_LIST)) :
         client = [phase       |-> "on",
                   mode        |-> mode,
                   lives       |-> 3,
                   score       |-> 0,
                   totalPoints |-> 0,
                   difficulty  |-> Ratio(1, 1),
                   timeLeft    |-> DoubleOfInt(IF mode = "survival" THEN 60 ELSE 10),
                   target      |-> 50,
                   reactions   |-> <<>>,
                   maxCombo    |-> 0,
                   combo       |-> 0,
                   question    |-> ask(rFont, rText, ClientPicks, Unshuffled),
                   pendingAsk  |-> 0,
                   timerInt    |-> TRUE,
                   ticks       |-> 0,
                   finished    |-> 0,
                   coins       |-> balance,
                   stars       |-> balance]

\* a delayed ask() runs: the question and its buttons are replaced
ClientAsk(rFont, rText) ==
    /\ client.phase = "on"
    /\ client.pendingAsk > 0
    /\ client' = [client EXCEPT !.pendingAsk = client.pendingAsk - 1,
                                 !.question = ask(rFont, rText, ClientPicks, Unshuffled)]
    /\ UNCHANGED <<sessionVars, calc, tracker, answers>>

\* the points a correct click adds
ClickPoints(RT, combo) ==
    LET basePoints == 10
        speedBonus == Max(0, JsFloorDiv(2000 - RT, 100))
        multiplier == DoubleAdd(DoubleOfInt(1), DoubleMul(DoubleOfInt(combo), Double_0_1))
    IN  JsMathRound(DoubleMul(DoubleOfInt(basePoints + speedBonus), multiplier))

\* Math.min(10, difficulty + 0.5)
NextDifficulty(difficulty) ==
    LET raised == Ratio(2 * difficulty.num + difficulty.den, 2 * difficulty.den)
    IN  IF RatioLess(Ratio(10, 1), raised) THEN Ratio(10, 1) ELSE raised

\* Math.max(0, timeLeft - amount)
TimeMinus(timeLeft, amount) ==
    IF DoubleLess(timeLeft, amount) THEN DoubleOfInt(0) ELSE DoubleSub(timeLeft, amount)

\* timeLeft <= 0
TimeUp(timeLeft) == ~DoubleLess(DoubleOfInt(0), timeLeft)

\* the closure variables c after btn.onclick of the button labelled opt, RT ms after
\* the question was shown
Clicked(c, opt, RT) ==
    IF opt = c.question.FontColorName
    THEN [c EXCEPT
            !.reactions   = Append(c.reactions, RT),
            !.score       = c.score + 1,
            !.combo       = c.combo + 1,
            !.maxCombo    = Max(c.maxCombo, c.combo + 1),
            !.totalPoints = c.totalPoints + ClickPoints(RT, c.combo + 1),
            !.difficulty  = IF (c.score + 1) % 5 = 0 THEN NextDifficulty(c.difficulty)
                                                     ELSE c.difficulty,
            !.timeLeft    = IF c.mode = "survival"
                            THEN DoubleAdd(c.timeLeft, DoubleOfInt(3))
                            ELSE c.timeLeft,
            !.pendingAsk  = c.pendingAsk + 1]
    ELSE [c EXCEPT
            !.reactions   = Append(c.reactions, RT),
            !.combo       = 0,
            !.lives       = IF c.mode = "endless" THEN c.lives - 1 ELSE c.lives,
            !.timeLeft    = IF c.mode = "survival"
                            THEN TimeMinus(c.timeLeft, DoubleOfInt(3))
                            ELSE c.timeLeft,
            !.totalPoints = IF c.mode = "speed" THEN Max(0, c.totalPoints - 5)
                                                ELSE c.totalPoints,
            !.pendingAsk  = c.pendingAsk + 1]

\* btn.onclick of the button labelled opt, RT ms after the question was shown
ClientClick(opt, RT) ==
    /\ client.phase = "on"
    /\ opt \in Range(client.question.Options)
    /\ client' = Clicked(client, opt, RT)
    /\ UNCHANGED <<sessionVars, calc, tracker, answers>>

\* the coins and stars finishRefinedConfusion adds to the balances
ClientCoins_Rounded(totalPoints) == JsFloorDiv(totalPoints + 50, 100)

ClientCoins(totalPoints) == JsFloorDiv(totalPoints, 100)
ClientStars(score) == JsFloorDiv(score, 10)

\* variant: the interval is not cleared
Finished_TimerKept(c) ==
    [c EXCEPT !.finished = c.finished + 1,
              !.coins    = c.coins + ClientCoins(c.totalPoints),
              !.stars    = c.stars + ClientStars(c.score)]

\* clearInterval(timerInt); finishRefinedConfusion({...})
Finished(c) ==
    [c EXCEPT !.timerInt = FALSE,
              !.finished = c.finished + 1,
              !.coins    = c.coins + ClientCoins(c.totalPoints),
              !.stars    = c.stars + ClientStars(c.score)]

\* survival: timeLeft = Math.max(0, timeLeft - 0.1)
CountedDown(c) ==
    [c EXCEPT !.timeLeft = TimeMinus(c.timeLeft, Double_0_1), !.ticks = c.ticks + 1]

\* the timer callback finishes the game if the terminal condition of its branch holds
FinishedIf(terminal, c) == IF terminal THEN Finished(c) ELSE c

\* the closure variables c after one run of the setInterval callback
TimerFired(c) ==
    IF c.mode = "survival" THEN FinishedIf(TimeUp(CountedDown(c).timeLeft), CountedDown(c))
    ELSE IF c.mode = "speed" THEN FinishedIf(c.score >= c.target, c)
    ELSE FinishedIf(c.lives <= 0, c)

\* the setInterval callback, every 100 ms while the interval is set
ClientTimer ==
    /\ client.phase = "on"
    /\ client.timerInt
    /\ client' = TimerFired(client)
    /\ UNCHANGED <<sessionVars, calc, tracker, answers>>

\* survival: the countdown is in its first MaxTicks callbacks or in its last second
CountdownWindow ==
    client.mode = "survival" =>
        (client.ticks < MaxTicks \/ DoubleLess(client.timeLeft, DoubleOfInt(1)))

\* the clicks and timer callbacks the exploration accepts
ClientWithinBounds(opt) ==
    LET correct == opt = client.question.FontColorName
        score   == client.score + (IF correct THEN 1 ELSE 0)
        wrong   == Len(client.reactions) - client.score + (IF correct THEN 0 ELSE 1)
    IN  /\ score <= (IF client.mode = "speed" THEN MaxScore ELSE MaxClientScore)
        /\ wrong <= MaxClientWrong
        /\ score = 0 \/ wrong <= MaxClientMixed
        /\ client.pendingAsk < MaxPending
        /\ CountdownWindow

TimerWithinBounds == CountdownWindow \/ Len(client.reactions) = 0

ClientReactionInputs ==
    IF Len(client.reactions) < MaxVaried THEN ReactionTimes ELSE {SteadyReaction}

NextClient ==
    \/ \E rFont \in Draw(Len(WORD_LIST)), rText \in Draw(Len(WORD_LIST)) : ClientAsk(rFont, rText)
    \/ \E opt \in Range(WORD_LIST), RT \in ClientReactionInputs :
            ClientWithinBounds(opt) /\ ClientClick(opt, RT)
    \/ TimerWithinBounds /\ ClientTimer

SpecClient == ClientInit /\ [][NextClient]_vars


(***************************************************************************)
(* The browser game as far as its end is concerned: what the timer callback *)
(* reads (mode, lives, timeLeft, score and target of a speed run) and the   *)
(* callbacks pending. The variables no terminal condition reads keep their  *)
(* initial values, so that a game played on without end is a cycle.         *)
(***************************************************************************)
TimerView(c) ==
    [c EXCEPT !.reactions   = <<>>,
              !.totalPoints = 0,
              !.combo       = 0,
              !.maxCombo    = 0,
              !.difficulty  = Ratio(1, 1),
              !.ticks       = 0,
              !.score       = IF c.mode = "speed" THEN c.score ELSE 0]

\* the clicks explored: a speed run up to MaxScore correct answers, an endless game
\* down to -MaxClientMixed lives; in survival a wrong click in the last second and a
\* correct click when the time is up
LiveWithinBounds(opt) ==
    LET correct == opt = client.question.FontColorName
    IN  /\ client.pendingAsk < MaxPending
        /\ client.mode = "speed" /\ correct => client.score < MaxScore
        /\ client.mode = "endless" /\ ~correct => client.lives > -MaxClientMixed
        /\ client.mode = "survival" /\ ~correct => DoubleLess(client.timeLeft, DoubleOfInt(1))
        /\ client.mode = "survival" /\ correct => TimeUp(client.timeLeft)

LiveClick(opt) ==
    /\ client.phase = "on"
    /\ opt \in Range(client.question.Options)
    /\ LiveWithinBounds(opt)
    /\ client' = TimerView(Clicked(client, opt, SteadyReaction))
    /\ UNCHANGED <<sessionVars, calc, tracker, answers>>

LiveTimer ==
    /\ client.phase = "on"
    /\ client.timerInt
    /\ client' = TimerView(TimerFired(client))
    /\ UNCHANGED <<sessionVars, calc, tracker, answers>>

LiveAsk == \E rFont \in Draw(Len(WORD_LIST)), rText \in Draw(Len(WORD_LIST)) : ClientAsk(rFont, rText)

NextClientLive == LiveAsk \/ (\E opt \in Range(WORD_LIST) : LiveClick(opt)) \/ LiveTimer

\* a run of the timer callback would change the state: the interval is set, and the
\* game counts down or its terminal condition holds
TimerCanRun ==
    /\ client.phase = "on" /\ client.timerInt
    /\ \/ client.mode = "survival"
       \/ client.mode = "speed" /\ client.score >= client.target
       \/ client.mode = "endless" /\ client.lives <= 0

\* the step is such a run: it clears the interval, or it counts down (a click changes
\* the number of pending callbacks as well)
TimerStep ==
    /\ client.phase = "on" /\ client.timerInt
    /\ \/ ~client'.timerInt
       \/ /\ client'.timeLeft # client.timeLeft
          /\ client'.pendingAsk = client.pendingAsk

\* the 100 ms timer keeps firing while its interval is set: weak fairness of
\* LiveTimer, that is []<>(~ENABLED <<LiveTimer>>_vars) \/ []<><<LiveTimer>>_vars,
\* written with TimerCanRun for the enabling condition and TimerStep for the step
TimerKeepsFiring == []<>(~TimerCanRun) \/ []<><<TimerStep>>_vars

\* TimerCanRun is the enabling condition of a timer step
TimerCanRunIsEnabled ==
    TimerCanRun <=> /\ client.phase = "on"
                    /\ client.timerInt
                    /\ TimerView(TimerFired(client)) # client

\* TimerStep holds of the timer steps, and of no other step
TimerStepIsLiveTimer == [][TimerStep <=> LiveTimer]_vars

\* the timer keeps firing, and a callback delayed by setTimeout does run
SpecClientLive ==
    ClientInit /\ [][NextClientLive]_vars /\ TimerKeepsFiring /\ WF_vars(LiveAsk)
(***************************************************************************)
(* The coins and stars of a session, on bounded totals                     *)
(***************************************************************************)
MaxRewardPoints  == 230   \* largest totalPoints
MaxRewardCorrect == 23    \* largest number of correct answers

NotRewarded == [coins |-> -1, stars |-> -1]

RewardsInit ==
    /\ SessionInit
    /\ Mode = "Endless"
    /\ tracker = [phase |-> "off"]
    /\ answers = <<>>
    /\ client = [phase |-> "off"]
    /\ \E totalPoints \in 0..MaxRewardPoints, correctAnswers \in 0..MaxRewardCorrect :
         calc = [phase          |-> "rewards",
                 totalPoints    |-> totalPoints,
                 correctAnswers |-> correctAnswers,
                 csharp         |-> NotRewarded,
                 cpp            |-> NotRewarded,
                 client         |-> NotRewarded]

\* CoinsEarned and StarsEarned as GetFinalReport fills them
CallCsharpRewards ==
    /\ calc.phase = "rewards"
    /\ calc.csharp = NotRewarded
    /\ calc' = [calc EXCEPT !.csharp = [coins |-> CalculateCoins(calc.totalPoints),
                                         stars |-> CalculateStars(calc.correctAnswers)]]
    /\ UNCHANGED <<sessionVars, tracker, answers, client>>

CallCppRewards ==
    /\ calc.phase = "rewards"
    /\ calc.cpp = NotRewarded
    /\ calc' = [calc EXCEPT !.cpp = [coins |-> calculateCoins(calc.totalPoints),
                                      stars |-> calculateStars(calc.correctAnswers)]]
    /\ UNCHANGED <<sessionVars, tracker, answers, client>>

\* finishRefinedConfusion on a game with these totals: what it adds to the balances
CallClientFinish ==
    /\ calc.phase = "rewards"
    /\ calc.client = NotRewarded
    /\ \E balance \in StartBalances :
         \E before \in {[timerInt |-> TRUE, finished |-> 0, coins |-> balance, stars |-> balance,
                         totalPoints |-> calc.totalPoints, score |-> calc.correctAnswers]} :
           \E after \in {Finished(before)} :
             calc' = [calc EXCEPT !.client = [coins |-> after.coins - before.coins,
                                              stars |-> after.stars - before.stars]]
    /\ UNCHANGED <<sessionVars, tracker, answers, client>>

NextRewards == CallCsharpRewards \/ CallCppRewards \/ CallClientFinish

SpecRewards == RewardsInit /\ [][NextRewards]_vars

(***************************************************************************)
(* ComboTracker (Java)                                                     *)
(***************************************************************************)
ComboInit ==
    /\ SessionInit
    /\ Mode = "Endless"
    /\ calc = [phase |-> "off"]
    /\ tracker = [phase |-> "on", currentCombo |-> 0, maxCombo |-> 0,
                  totalCorrect |-> 0, totalWrong |-> 0]
    /\ answers = <<>>
    /\ client = [phase |-> "off"]

\* variant: maxCombo is updated from the combo before the increment
recordCorrect_StaleMax ==
    /\ tracker.phase = "on"
    /\ Len(answers) < MaxLog
    /\ tracker' = [tracker EXCEPT !.currentCombo = tracker.currentCombo + 1,
                                  !.totalCorrect = tracker.totalCorrect + 1,
                                  !.maxCombo = Max(tracker.maxCombo, tracker.currentCombo)]
    /\ answers' = Append(answers, TRUE)
    /\ UNCHANGED <<sessionVars, calc, client>>

recordCorrect ==
    /\ tracker.phase = "on"
    /\ Len(answers) < MaxLog
    /\ tracker' = [tracker EXCEPT !.currentCombo = tracker.currentCombo + 1,
                                  !.totalCorrect = tracker.totalCorrect + 1,
                                  !.maxCombo = Max(tracker.maxCombo, tracker.currentCombo + 1)]
    /\ answers' = Append(answers, TRUE)
    /\ UNCHANGED <<sessionVars, calc, client>>

recordWrong ==
    /\ tracker.phase = "on"
    /\ Len(answers) < MaxLog
    /\ tracker' = [tracker EXCEPT !.currentCombo = 0,
                                  !.totalWrong = tracker.totalWrong + 1]
    /\ answers' = Append(answers, FALSE)
    /\ UNCHANGED <<sessionVars, calc, client>>

NextCombo == recordCorrect \/ recordWrong

SpecCombo == ComboInit /\ [][NextCombo]_vars

(***************************************************************************)
(* SessionAnalyzer and the loop of main (Java)                             *)
(***************************************************************************)
MaxAnalyzed == 3   \* iterations of the loop of main explored (main runs 8)

\* 200 + random.nextInt(1800)
AnalyzerReactionTimes == {200, 1999}

\* new ComboTracker(); new SessionAnalyzer(combo)
NewAnalyzer ==
    [phase |-> "analyzer", currentCombo |-> 0, maxCombo |-> 0, totalCorrect |-> 0,
     totalWrong |-> 0, reactionTimes |-> <<>>, totalPoints |-> 0, ret |-> Void]

AnalyzerInit ==
    /\ SessionInit
    /\ Mode = "Endless"
    /\ calc = [phase |-> "off"]
    /\ tracker = NewAnalyzer
    /\ answers = <<>>
    /\ client = [phase |-> "off"]

\* StroopValidator.validateAnswer
validateAnswer(question, selectedColor) ==
    EqualsIgnoreCase(question.FontColorName, selectedColor)

\* one iteration of the loop of main: the question q is answered with its font colour
\* when isCorrect and with "WrongColor" otherwise, after reactionTime ms
MainIteration(q, isCorrect, reactionTime) ==
    /\ tracker.phase = "analyzer"
    /\ Len(tracker.reactionTimes) < MaxAnalyzed
    /\ \E valid \in {validateAnswer(q, IF isCorrect THEN q.FontColorName ELSE "WrongColor")} :
         IF valid
         THEN \E combo \in {tracker.currentCombo + 1} :
              \E points \in {SessionAnalyzer_calculatePoints(reactionTime, combo, 3)} :
                tracker' = [tracker EXCEPT
                    !.reactionTimes = Append(tracker.reactionTimes, reactionTime),
                    !.currentCombo  = combo,
                    !.totalCorrect  = tracker.totalCorrect + 1,
                    !.maxCombo      = Max(tracker.maxCombo, combo),
                    !.totalPoints   = tracker.totalPoints + points,
                    !.ret           = [kind |-> "iteration", valid |-> TRUE, points |-> points]]
         ELSE tracker' = [tracker EXCEPT
                    !.reactionTimes = Append(tracker.reactionTimes, reactionTime),
                    !.currentCombo  = 0,
                    !.totalWrong    = tracker.totalWrong + 1,
                    !.ret           = [kind |-> "iteration", valid |-> FALSE, points |-> 0]]
    /\ UNCHANGED <<sessionVars, calc, answers, client>>

\* SessionAnalyzer.getAverageReactionTime, getFastestReaction, getSlowestReaction
getAverageReactionTime ==
    /\ tracker.phase = "analyzer"
    /\ tracker' = [tracker EXCEPT !.ret =
          [kind  |-> "average",
           value |-> IF tracker.reactionTimes = <<>> THEN Ratio(0, 1)
                     ELSE Ratio(Sum(tracker.reactionTimes), Len(tracker.reactionTimes))]]
    /\ UNCHANGED <<sessionVars, calc, answers, client>>

getFastestReaction ==
    /\ tracker.phase = "analyzer"
    /\ tracker' = [tracker EXCEPT !.ret =
          [kind  |-> "fastest",
           value |-> IF tracker.reactionTimes = <<>> THEN 0 ELSE SeqMin(tracker.reactionTimes)]]
    /\ UNCHANGED <<sessionVars, calc, answers, client>>

getSlowestReaction ==
    /\ tracker.phase = "analyzer"
    /\ tracker' = [tracker EXCEPT !.ret =
          [kind  |-> "slowest",
           value |-> IF tracker.reactionTimes = <<>> THEN 0 ELSE SeqMax(tracker.reactionTimes)]]
    /\ UNCHANGED <<sessionVars, calc, answers, client>>

\* the questions validator.generateQuestion() gives main, at difficulty 3
MainQuestions ==
    {generateQuestion(getColorPoolForDifficulty(3), rFont, rWord, <<1, 2, 3>>, <<>>, Unshuffled) :
        rFont \in Draw(8), rWord \in Draw(7)}

NextAnalyzer ==
    \/ \E q \in MainQuestions, isCorrect \in BOOLEAN, reactionTime \in AnalyzerReactionTimes :
            MainIteration(q, isCorrect, reactionTime)
    \/ getAverageReactionTime
    \/ getFastestReaction
    \/ getSlowestReaction

SpecAnalyzer == AnalyzerInit /\ [][NextAnalyzer]_vars

(***************************************************************************)
(* Queries on short histories: a session without answers, a ranker with    *)
(* few records, an analyzer with few reactions                             *)
(***************************************************************************)
MaxHistory == 1   \* records stored and reactions recorded

HistoryInit ==
    /\ SessionInit
    /\ \E part \in {"session", "ranker", "analyzer"} :
         /\ calc = (IF part = "ranker" THEN [phase |-> "ranker", scores |-> <<>>, sortedAs |-> {}, ret |-> Void]
                                       ELSE [phase |-> "off"])
         /\ tracker = (IF part = "analyzer" THEN NewAnalyzer ELSE [phase |-> "off"])
    /\ answers = <<>>
    /\ client = [phase |-> "off"]

\* the object the exploration queries is the session
SessionQueried == calc.phase = "off" /\ tracker.phase = "off"

NextHistory ==
    \/ SessionQueried /\ Start /\ UNCHANGED <<calc, tracker, answers, client>>
    \/ SessionQueried /\ GetFinalReport /\ UNCHANGED <<calc, tracker, answers, client>>
    \/ /\ calc.phase = "ranker" /\ Len(calc.scores) < MaxHistory
       /\ \E score \in SampleScores : addScore(score)
    \/ calc.phase = "ranker" /\ \E modeFilter \in ModeFilters : getRankings(modeFilter)
    \/ /\ calc.phase = "ranker"
       /\ \E playerPoints \in PercentileQueries : CallCalculatePercentile(playerPoints)
    \/ calc.phase = "ranker" /\ getStatistics
    \/ /\ tracker.phase = "analyzer" /\ Len(tracker.reactionTimes) < MaxHistory
       /\ \E q \in MainQuestions, isCorrect \in BOOLEAN, reactionTime \in AnalyzerReactionTimes :
            MainIteration(q, isCorrect, reactionTime)
    \/ tracker.phase = "analyzer" /\ getAverageReactionTime
    \/ tracker.phase = "analyzer" /\ getFastestReaction
    \/ tracker.phase = "analyzer" /\ getSlowestReaction

SpecHistory == HistoryInit /\ [][NextHistory]_vars

(***************************************************************************)
(* Validation of one answer, in C# (SubmitAnswer) and Java (validateAnswer) *)
(***************************************************************************)
MaxAnswers == 1   \* answers a session evaluates

\* what a player can submit: every registry colour in its three spellings, and a
\* name outside the registry
SelectableColors ==
    Range(Colors) \cup Range(UpperNames) \cup Range(LowerNames) \cup {"WrongColor"}

\* the questions the validator of main (difficulty 3) can ask, as far as the
\* validation goes: every font colour and every word
ValidatedQuestions ==
    {generateQuestion(getColorPoolForDifficulty(3), rFont, rWord, <<1, 2, 3>>, <<>>, Unshuffled) :
        rFont \in 0..7, rWord \in 0..6}

AnswerInit ==
    /\ SessionInit
    /\ Mode = "Endless"
    /\ \E impl \in {"csharp", "java"} :
         calc = [phase |-> "validate", impl |-> impl, question |-> Null,
                 selectedColor |-> Null, valid |-> Null]
    /\ tracker = [phase |-> "off"]
    /\ answers = <<>>
    /\ client = [phase |-> "off"]

\* session.SubmitAnswer(selectedColor, reactionTimeMs) on the current question
AnswerCsharp(selectedColor) ==
    /\ calc.impl = "csharp"
    /\ Len(answers) < MaxAnswers
    /\ ~NoActiveQuestion
    /\ SubmitAnswer(selectedColor, SteadyReaction)
    /\ answers' = Append(answers, selectedColor)
    /\ UNCHANGED <<calc, tracker, client>>

\* validator.validateAnswer(question, selectedColor)
AnswerJava(question, selectedColor) ==
    /\ calc.impl = "java" /\ calc.question = Null
    /\ calc' = [calc EXCEPT !.question = question, !.selectedColor = selectedColor,
                            !.valid = validateAnswer(question, selectedColor)]
    /\ UNCHANGED <<sessionVars, tracker, answers, client>>

NextAnswer ==
    \/ calc.impl = "csharp" /\ Start /\ UNCHANGED <<calc, tracker, answers, client>>
    \/ \E rFont \in 0..(Len(colorPool) - 1), rWord \in 0..(Len(colorPool) - 2),
          picked \in FirstPicks, fill \in Fills :
            /\ calc.impl = "csharp" /\ Len(answers) < MaxAnswers
            /\ NextQuestion(rFont, rWord, picked, fill, Unshuffled)
            /\ UNCHANGED <<calc, tracker, answers, client>>
    \/ /\ calc.impl = "csharp"
       /\ \E selectedColor \in SelectableColors : AnswerCsharp(selectedColor)
    \/ /\ calc.impl = "java"
       /\ \E question \in ValidatedQuestions, selectedColor \in SelectableColors :
            AnswerJava(question, selectedColor)

SpecAnswer == AnswerInit /\ [][NextAnswer]_vars

\* the registry colour a displayed word names
ColourOfWord(textWord) == Colors[CHOOSE i \in 1..Len(Colors) : UpperNames[i] = textWord]

(***************************************************************************)
(* The loops that complete the options, one random draw per step           *)
(***************************************************************************)
\* variant: the servers draw fillers among the pool's distractors, as the client does
FillerSource_Distractors(impl, pool, fontColor, textWord) ==
    Range(Distractors(pool, fontColor, textWord))

\* what a loop draws from: ColorRegistry.Colors.Keys (C#), COLORS.keySet() (Java),
\* the distractors of WORD_LIST (client)
FillerSource(impl, pool, fontColor, textWord) ==
    IF impl = "client" THEN Range(Distractors(pool, fontColor, textWord))
    ELSE Range(Colors)

\* the pool a generator works on
FillPool(impl, difficulty) ==
    IF impl = "client" THEN WORD_LIST
    ELSE IF impl = "java" THEN getColorPoolForDifficulty(difficulty)
    ELSE GetColorPool(difficulty)

\* the generator is about to test its loop condition for the first time
AtLoop(impl, difficulty, fontColor, textWord, options) ==
    [phase |-> "fill", impl |-> impl, difficulty |-> difficulty, fontColor |-> fontColor,
     textWord |-> textWord, options |-> options, filler |-> "", pc |-> "loop"]

\* options = { fontColor } + distractors.Take(3), for every font, word and shuffle
ServerAtLoop(impl) ==
    \E difficulty \in QuestionDifficulties :
      \E pool \in {FillPool(impl, difficulty)} :
        \E rFont \in 0..(Len(pool) - 1), rWord \in 0..(Len(pool) - 2),
           picked \in PickOrders[Len(pool) - 2] :
          \E question \in {NextQuestionResult(pool, rFont, rWord, picked, <<>>,
                                              [i \in 1..(Len(picked) + 1) |-> i])} :
             calc = AtLoop(impl, difficulty, question.FontColorName,
                           ColourOfWord(question.TextWord), question.Options)

\* let options = [fontColorName], for every font and word ask() can draw
ClientAtLoop ==
    \E rFont \in 0..(Len(WORD_LIST) - 1), rText \in 0..(Len(WORD_LIST) - 1) :
      \E question \in {ask(rFont, rText, <<>>, <<1>>)} :
         calc = AtLoop("client", 1, question.FontColorName,
                       ColourOfWord(question.TextWord), question.Options)

FillInit ==
    /\ SessionInit
    /\ Mode = "Endless"
    /\ \/ \E impl \in {"csharp", "java"} : ServerAtLoop(impl)
       \/ ClientAtLoop
    /\ tracker = [phase |-> "off"]
    /\ answers = <<>>
    /\ client = [phase |-> "off"]

\* one turn of the loop in which the random draw yields filler:
\* while (options.Count < 4) { ...; if (!options.Contains(filler)) options.Add(filler); }
FillDraw(filler) ==
    /\ calc.phase = "fill" /\ calc.pc = "loop"
    /\ Len(calc.options) < 4
    /\ filler \in FillerSource(calc.impl, FillPool(calc.impl, calc.difficulty),
                               calc.fontColor, calc.textWord)
    /\ calc' = [calc EXCEPT !.filler = filler,
                            !.options = IF FillerAccepted(calc.options, filler)
                                        THEN Append(calc.options, filler)
                                        ELSE calc.options]
    /\ UNCHANGED <<sessionVars, tracker, answers, client>>

\* the loop condition is false: the generator goes on to shuffle the options
FillExit ==
    /\ calc.phase = "fill" /\ calc.pc = "loop"
    /\ Len(calc.options) >= 4
    /\ calc' = [calc EXCEPT !.pc = "done"]
    /\ UNCHANGED <<sessionVars, tracker, answers, client>>

NextFill == (\E filler \in Range(Colors) : FillDraw(filler)) \/ FillExit

SpecFill == FillInit /\ [][NextFill]_vars

\* the generator keeps running, and every registry colour keeps being drawn
FillFairness ==
    /\ WF_vars(FillExit)
    /\ \A filler \in Range(Colors) : WF_vars(FillDraw(filler))

SpecFillFair == SpecFill /\ FillFairness

\* the generator keeps running, with nothing assumed about its draws
SpecFillRunning == SpecFill /\ WF_vars(NextFill)

(***************************************************************************)
(* Properties                                                              *)
(***************************************************************************)
sessionFields == <<Mode, State, Score, TotalPoints, Combo, MaxCombo, Lives, TimeLeft, Target,
                   Difficulty, WrongAnswers, CurrentQuestion, StartTime, colorPool, reactions>>

\* the step is a call of SubmitAnswer
SubmitStep ==
    \E selectedColor \in AnswerInputs, reactionTimeMs \in ReactionInputs :
        SubmitAnswer(selectedColor, reactionTimeMs)

\* the step is a SubmitAnswer that accepted an answer (only it records a reaction)
AcceptedStep == Len(reactions') = Len(reactions) + 1
CorrectStep  == AcceptedStep /\ Score' = Score + 1
WrongStep    == AcceptedStep /\ WrongAnswers' = WrongAnswers + 1

\* C1: SubmitAnswer on a session that is not Active (Idle or Finished) returns the
\* error outcome and changes no field of the session.
C1_InactiveSubmitRejected ==
    [][(State # "Active" /\ SubmitStep) => (ret' = ErrorOutcome /\ UNCHANGED sessionFields)]_vars

C1_Witness ==
    /\ ret = ErrorOutcome
    /\ State = "Finished"
    /\ CurrentQuestion # Null
    /\ Len(reactions) > 0

\* C2: once a session is Finished it stays Finished, and Score, TotalPoints, Combo,
\* Lives and TimeLeft never change again, whatever operation is called.
C2_FinishedIsTerminal ==
    [][State = "Finished" =>
          (State' = "Finished" /\ UNCHANGED <<Score, TotalPoints, Combo, Lives, TimeLeft>>)]_vars

\* C3: an Endless session becomes Finished in the very step that accepts its third
\* incorrect answer, and is never Finished with fewer than three incorrect answers.
C3_EndlessThirdWrong ==
    /\ [](Mode = "Endless" /\ State = "Finished" => WrongAnswers >= 3)
    /\ [][(Mode = "Endless" /\ WrongStep /\ WrongAnswers' = 3) =>
             (State = "Active" /\ State' = "Finished")]_vars

C3_Witness ==
    /\ Mode = "Endless"
    /\ State = "Finished"
    /\ WrongAnswers = 3
    /\ ret.kind = "outcome"
    /\ ~ret.isActive

\* C4: a correct answer never changes Lives, in any mode.
C4_CorrectKeepsLives == [][CorrectStep => Lives' = Lives]_vars

C4_Witness ==
    /\ Mode = "Endless"
    /\ ret.kind = "outcome"
    /\ ret.correct
    /\ Lives = 2

\* C5: in a Survival session TimeLeft is never negative, a wrong answer that brings it
\* to 0 finishes the session in that step, and an Active session has TimeLeft > 0.
C5_SurvivalTime ==
    /\ [](Mode = "Survival" => (TimeLeft >= 0 /\ (State = "Active" => TimeLeft > 0)))
    /\ [][(Mode = "Survival" /\ WrongStep /\ TimeLeft' = 0) => State' = "Finished"]_vars

\* C6: in a SpeedRun session the correct answer that makes Score equal to Target
\* finishes the session in that step, Score never exceeds Target, and no Active
\* session has Score >= Target.
C6_SpeedRunTarget ==
    /\ [](Mode = "SpeedRun" => (Score <= Target /\ (State = "Active" => Score < Target)))
    /\ [][(Mode = "SpeedRun" /\ CorrectStep /\ Score' = Target) => State' = "Finished"]_vars

\* C7: TotalPoints is never negative, and a SpeedRun penalty applied while
\* TotalPoints < 5 leaves it at 0.
C7_TotalPointsNonNegative ==
    /\ [](TotalPoints >= 0)
    /\ [][(Mode = "SpeedRun" /\ WrongStep /\ TotalPoints < 5) => TotalPoints' = 0]_vars

C7_Witness ==
    /\ Mode = "SpeedRun"
    /\ ret.kind = "outcome"
    /\ ~ret.correct
    /\ Score = 1
    /\ WrongAnswers = 3
    /\ TotalPoints = 0

\* C8: an incorrect answer in a SpeedRun session lowers TotalPoints by 5 (floored at
\* 0), resets Combo, increments WrongAnswers and leaves Score, Lives, TimeLeft,
\* Target, Difficulty and State unchanged.
C8_SpeedRunWrongAnswer ==
    [][(Mode = "SpeedRun" /\ WrongStep) =>
          /\ TotalPoints' = Max(0, TotalPoints - 5)
          /\ Combo' = 0
          /\ WrongAnswers' = WrongAnswers + 1
          /\ UNCHANGED <<Score, Lives, TimeLeft, Target, Difficulty, State>>]_vars

\* the number of consecutive TRUE entries at the end of the log
RECURSIVE TrailingRun(_)
TrailingRun(log) ==
    IF log = <<>> \/ ~log[Len(log)] THEN 0
    ELSE 1 + TrailingRun(SubSeq(log, 1, Len(log) - 1))

\* the length of the longest run of consecutive TRUE entries in the log
RECURSIVE LongestRun(_)
LongestRun(log) ==
    IF log = <<>> THEN 0
    ELSE Max(TrailingRun(log), LongestRun(SubSeq(log, 1, Len(log) - 1)))

CountOf(log, b) == Cardinality({i \in 1..Len(log) : log[i] = b})

\* C9: the current combo is the length of the current run of correct answers (0 right
\* after a wrong answer, one more after a correct one), maxCombo is the longest run so
\* far, never decreases and is >= the current combo, and totalCorrect and totalWrong
\* count the recorded correct and wrong answers.
C9_ComboTracker ==
    /\ [](tracker.phase = "on" =>
            /\ tracker.currentCombo = TrailingRun(answers)
            /\ tracker.maxCombo = LongestRun(answers)
            /\ tracker.maxCombo >= tracker.currentCombo
            /\ tracker.totalCorrect = CountOf(answers, TRUE)
            /\ tracker.totalWrong = CountOf(answers, FALSE))
    /\ [][/\ tracker'.maxCombo >= tracker.maxCombo
          /\ answers' = Append(answers, FALSE) => tracker'.currentCombo = 0
          /\ answers' = Append(answers, TRUE) =>
                tracker'.currentCombo = tracker.currentCombo + 1]_vars

C9_Witness ==
    /\ tracker.phase = "on"
    /\ tracker.maxCombo = 3
    /\ tracker.currentCombo = 1
    /\ tracker.totalWrong = 2

\* the same step properties for the Combo and MaxCombo fields of the C# session
SessionCombo ==
    /\ [](MaxCombo >= Combo /\ Combo >= 0)
    /\ [][/\ MaxCombo' >= MaxCombo
          /\ WrongStep => Combo' = 0
          /\ CorrectStep => (Combo' = Combo + 1 /\ MaxCombo' = Max(MaxCombo, Combo'))
          /\ ~AcceptedStep => UNCHANGED <<Combo, MaxCombo>>]_vars

\* round((10 + speedBonus) * (1 + 0.1*combo) * (1 + 0.15*(difficulty-1))) in exact
\* arithmetic, a half rounding up
DocumentedPoints(reactionMs, combo, difficulty) ==
    LET speedBonus == Max(0, IntDiv(2000 - reactionMs, 100))
        thousandths == (10 + speedBonus) * (10 + combo) * (100 + 15 * (difficulty - 1))
    IN  (thousandths + 500) \div 1000

\* C10: for every reaction time, combo >= 0 and difficulty >= 1, the C# and the C++
\* calculator return round((10 + speedBonus) * (1 + 0.1*combo) * (1 + 0.15*(difficulty-1))).
C10_PointsFormula ==
    calc.phase = "on" =>
        LET documented == DocumentedPoints(calc.reactionTimeMs, calc.currentCombo, calc.difficulty)
        IN  /\ calc.csharp # NotComputed => calc.csharp = documented
            /\ calc.cpp # NotComputed => calc.cpp = documented

\* C11: the C#, the C++ and the Java point calculator return the same value for every
\* input (reactionMs, combo, difficulty) of the bounded range.
C11_CalculatorsAgree ==
    (calc.phase = "on" /\ calc.csharp # NotComputed /\ calc.cpp # NotComputed
        /\ calc.java # NotComputed) =>
            (calc.csharp = calc.cpp /\ calc.cpp = calc.java)

\* the C++ and the Java calculator agree with each other on every input
CppJavaAgree ==
    (calc.phase = "on" /\ calc.cpp # NotComputed /\ calc.java # NotComputed) =>
        calc.cpp = calc.java

\* the documented tiers, best first: <<name, reaction limit, correct limit>>
RatingTiers ==
    << <<"Legendary", 400, 50>>, <<"Grandmaster", 500, 40>>, <<"Master", 600, 30>>,
       <<"Expert", 700, 25>>, <<"Advanced", 800, 20>>, <<"Proficient", 1000, 15>>,
       <<"Intermediate", 1200, 10>>, <<"Beginner", 1500, 5>> >>

TierHolds(i, avg, correct) ==
    avg.num < RatingTiers[i][2] * avg.den /\ correct > RatingTiers[i][3]

\* the first tier whose two strict conditions both hold, else Trainee
DocumentedRating(avg, correct) ==
    IF \E i \in 1..Len(RatingTiers) : TierHolds(i, avg, correct)
    THEN RatingTiers[CHOOSE i \in 1..Len(RatingTiers) :
                        /\ TierHolds(i, avg, correct)
                        /\ \A j \in 1..(i - 1) : ~TierHolds(j, avg, correct)][1]
    ELSE "Trainee"

\* C13: the C#, the C++ and the Java rating are each the first tier, in the documented
\* order, whose two strict conditions both hold (else Trainee), so they agree with
\* each other, and (450, 45) rates Grandmaster.
C13_RatingCascade ==
    calc.phase = "rating" =>
        LET documented == DocumentedRating(calc.avgReactionMs, calc.score)
        IN  /\ calc.csharp # NotRated => calc.csharp = documented
            /\ calc.cpp # NotRated => calc.cpp = documented
            /\ calc.java # NotRated => calc.java = documented
            /\ (calc.avgReactionMs = Ratio(450, 1) /\ calc.score = 45) =>
                    documented = "Grandmaster"

C13_Witness ==
    /\ calc.phase = "rating"
    /\ calc.avgReactionMs = Ratio(450, 1)
    /\ calc.score = 45
    /\ calc.csharp = "Grandmaster"
    /\ calc.cpp = "Grandmaster"
    /\ calc.java = "Grandmaster"

\* C15: in every generated question (C#, Java and client generator, every difficulty,
\* every outcome of the random draws) the displayed word names a colour different
\* from the font colour, compared case-insensitively.
C15_WordDiffersFromFont ==
    (calc.phase = "question" /\ calc.question # Null) =>
        ~EqualsIgnoreCase(calc.question.TextWord, calc.question.FontColorName)

\* the client drew the font colour again for the word and replaced it
C15_Witness ==
    /\ calc.phase = "question"
    /\ calc.impl = "client"
    /\ calc.rWord = calc.rFont
    /\ calc.question # Null
    /\ calc.question.FontColorName = "Red"
    /\ calc.question.TextWord = "BLUE"

\* C16: in every generated question the options are exactly 4 pairwise different
\* colour names, one of which is the font colour.
C16_FourDistinctOptions ==
    (calc.phase = "question" /\ calc.question # Null) =>
        LET options == calc.question.Options
        IN  /\ Len(options) = 4
            /\ \A i, j \in 1..Len(options) : i # j => options[i] # options[j]
            /\ \E i \in 1..Len(options) : options[i] = calc.question.FontColorName

\* a question of the 4-colour pool whose filler is the colour of the displayed word
C16_Witness ==
    /\ calc.phase = "question"
    /\ calc.impl = "csharp"
    /\ calc.difficulty = 1
    /\ calc.question # Null
    /\ Len(calc.fill) = 1
    /\ ToUpper(Colors[calc.fill[1]]) = calc.question.TextWord

\* every question a session step generates is NextQuestionResult of its pool and draws
NextQuestionAgrees ==
    [][CurrentQuestion' # CurrentQuestion =>
          \E rFont \in Draw(Len(colorPool)), rWord \in Draw(Len(colorPool) - 1),
             picked \in FirstPicks, fill \in Fills :
                /\ Len(picked) = Min(3, Len(colorPool) - 2)
                /\ Len(fill) = 3 - Len(picked)
                /\ CurrentQuestion' =
                      NextQuestionResult(colorPool, rFont, rWord, picked, fill, Unshuffled)]_vars

\* C17: two GetFinalReport calls on the same Finished session with no session
\* operation between them (the clock may advance) return reports that agree on every
\* field.  (ret holds a report only while no other operation has been called since.)
C17_ReportIdempotent ==
    [][(State = "Finished" /\ ret.kind = "report" /\ ret'.kind = "report") => ret' = ret]_vars

\* the two reports agree on every field other than ElapsedSeconds
ReportsAgreeButElapsed ==
    [][(State = "Finished" /\ ret.kind = "report" /\ ret'.kind = "report") =>
          [ret' EXCEPT !.ElapsedSeconds = 0] = [ret EXCEPT !.ElapsedSeconds = 0]]_vars

\* C18: a generated question is scored at most once: the SubmitAnswer that directly
\* follows an accepted SubmitAnswer, no question having been generated in between,
\* is not scored.
C18_QuestionScoredOnce ==
    [][(ret.kind = "outcome" /\ SubmitStep) => ~AcceptedStep]_vars

\* the (totalPoints, avgReactionMs) pairs of a result, in order
RankKeys(res) ==
    IF res.kind = "rankings"
    THEN [k \in 1..Len(res.entries) |-> <<res.entries[k].totalPoints, res.entries[k].avgReactionMs>>]
    ELSE [k \in 1..Len(res.players) |-> <<res.players[k].score, res.players[k].time>>]

\* the records [(1240, 45.2), (1240, 42.1), (950, 50)] and their documented order
ExampleRecords == {<<1240, Ratio(452, 10)>>, <<1240, Ratio(421, 10)>>, <<950, Ratio(500, 10)>>}
ExampleOrder == << <<1240, Ratio(421, 10)>>, <<1240, Ratio(452, 10)>>, <<950, Ratio(500, 10)>> >>

\* C19: the entries getRankings returns (and the players the Memory Master utility
\* sorts) are ordered by points descending and, among equal points, by reaction time
\* ascending: of two adjacent entries the earlier has more points, or equal points
\* and a reaction time that is not larger; the three example records come out as
\* (1240, 42.1), (1240, 45.2), (950, 50).
C19_RankingOrder ==
    (calc.phase = "ranker" /\ calc.ret.kind \in {"rankings", "players"}) =>
        LET keys == RankKeys(calc.ret)
        IN  /\ \A k \in 1..(Len(keys) - 1) :
                   \/ keys[k][1] > keys[k + 1][1]
                   \/ keys[k][1] = keys[k + 1][1] /\ ~RatioLess(keys[k + 1][2], keys[k][2])
            /\ (Len(keys) = 3 /\ Range(keys) = ExampleRecords) => keys = ExampleOrder

\* the example records, stored in the documented input order, have been ranked
C19_Witness ==
    /\ calc.phase = "ranker"
    /\ Len(calc.scores) = 3
    /\ calc.scores[1].avgReactionMs = Ratio(452, 10) /\ calc.scores[1].totalPoints = 1240
    /\ calc.scores[2].avgReactionMs = Ratio(421, 10) /\ calc.scores[2].totalPoints = 1240
    /\ calc.scores[3].totalPoints = 950
    /\ calc.ret.kind = "rankings"
    /\ RankKeys(calc.ret) = ExampleOrder

\* |p - x / (n - 1)| < 2^-45 for a double p and naturals x and n > 1
NearQuotient(p, x, n) ==
    LET s  == IF p.e < 0 THEN -p.e ELSE 0
        m  == IF p.e < 0 THEN p.m ELSE ShiftLeft(p.m, p.e)
        pm == ShiftLeft(MulSmall(Norm(m), n - 1), 45)
        xm == ShiftLeft(ToBig(x), s + 45)
        t  == ShiftLeft(ToBig(n - 1), s)
    IN  BigLess(pm, BigAdd(xm, t)) /\ BigLess(xm, BigAdd(pm, t))

\* C20: in a ranking of N entries the percentile at 0-based position i is
\* (N-1-i)/(N-1)*100 when N > 1 and 100 when N = 1; the top entry has 100, the bottom
\* entry 0 when N > 1, percentiles strictly decrease with rank, and three entries
\* get 100, 50, 0.
C20_Percentiles ==
    (calc.phase = "ranker" /\ calc.ret.kind = "rankings" /\ calc.ret.entries # <<>>) =>
        LET e == calc.ret.entries
            N == Len(e)
        IN  /\ DoubleEq(e[1].percentile, DoubleOfInt(100))
            /\ N > 1 => DoubleEq(e[N].percentile, DoubleOfInt(0))
            /\ N > 1 => \A k \in 1..N : NearQuotient(e[k].percentile, (N - k) * 100, N)
            /\ \A k \in 1..(N - 1) : DoubleLess(e[k + 1].percentile, e[k].percentile)
            /\ N = 3 => DoubleEq(e[2].percentile, DoubleOfInt(50))

C20_Witness ==
    /\ calc.phase = "ranker"
    /\ calc.ret.kind = "rankings"
    /\ Len(calc.ret.entries) = 3
    /\ DoubleEq(calc.ret.entries[2].percentile, DoubleOfInt(50))
    /\ calc.ret.entries[2].rank = 2

\* a correct click of the browser game
CorrectClick == client.phase = "on" /\ client'.phase = "on" /\ client'.score = client.score + 1

\* the values the server-side calculators give for a reaction time, a combo and a difficulty
ServerPoints(RT, combo, difficulty) ==
    {CalculatePoints(RT, combo, difficulty),
     calculatePoints(RT, combo, difficulty),
     SessionAnalyzer_calculatePoints(RT, combo, difficulty)}

\* the points the browser game adds agree with a server-side calculator at the server's difficulty
ClientPointsAsServer ==
    [][CorrectClick =>
         client'.totalPoints - client.totalPoints
             \in ServerPoints(client'.reactions[Len(client'.reactions)], client'.combo,
                              ScaleDifficulty(client.score))]_vars

\* the difficulty of the browser game is the server's for the same score
ClientDifficultyAsServer ==
    [][CorrectClick => client'.difficulty = Ratio(ScaleDifficulty(client'.score), 1)]_vars

\* C12: for every correct answer the browser game adds to totalPoints the value the
\* server-side formula gives for the same reaction time, the post-increment combo and the
\* session's current difficulty, and its difficulty follows the server's score thresholds.
C12_ClientMatchesServer ==
    [][CorrectClick =>
         /\ client'.totalPoints - client.totalPoints
                \in ServerPoints(client'.reactions[Len(client'.reactions)], client'.combo,
                                 ScaleDifficulty(client.score))
         /\ client'.difficulty = Ratio(ScaleDifficulty(client'.score), 1)]_vars

\* q = floor(a / b) for naturals a and b > 0
IsFloor(q, a, b) == q \in Nat /\ b * q <= a /\ a < b * (q + 1)

ReportRewards ==
    ret.kind = "report" =>
        /\ IsFloor(ret.CoinsEarned, ret.TotalPoints, 100)
        /\ IsFloor(ret.StarsEarned, ret.CorrectAnswers, 10)

\* the browser game, when it finishes, adds the coins and stars of its totals
ClientFinishRewards ==
    [][(client.phase = "on" /\ client'.phase = "on" /\ client'.finished = client.finished + 1) =>
         /\ IsFloor(client'.coins - client.coins, client.totalPoints, 100)
         /\ IsFloor(client'.stars - client.stars, client.score, 10)]_vars

\* the records of scores with totalPoints strictly below points
BelowCount(scores, points) ==
    Cardinality({k \in 1..Len(scores) : scores[k].totalPoints < points})

\* C21: calculatePercentile(points) over the full stored record set returns
\* (number of records with totalPoints strictly less than points) / (number of
\* records) * 100, and 100 when the record set is empty; records with totalPoints equal
\* to the queried points are not counted as outperformed.
C21_CalculatePercentile ==
    (calc.phase = "ranker" /\ calc.ret.kind = "percentile") =>
        LET n     == Len(calc.scores)
            below == BelowCount(calc.scores, calc.ret.playerPoints)
        IN  IF n = 0 THEN DoubleEq(calc.ret.value, DoubleOfInt(100))
            ELSE /\ NearQuotient(calc.ret.value, below * 100, n + 1)
                 /\ below = 0 => DoubleEq(calc.ret.value, DoubleOfInt(0))
                 /\ below = n => DoubleEq(calc.ret.value, DoubleOfInt(100))

C21_Witness ==
    /\ calc.phase = "ranker"
    /\ calc.ret.kind = "percentile"
    /\ calc.ret.playerPoints = 1240
    /\ Len(calc.scores) = 4
    /\ {calc.scores[k].mode : k \in 1..4} = {"endless", "survival", "speed"}
    /\ {calc.scores[k].totalPoints : k \in 1..4} = {950, 1240, 2100}
    /\ BelowCount(calc.scores, 1240) = 1
    /\ DoubleEq(calc.ret.value, DoubleOfInt(25))

\* the k-th smallest of the values of a sequence of integers, counted with repeats
KthSmallest(pts, k) ==
    CHOOSE v \in Range(pts) :
        /\ Cardinality({j \in 1..Len(pts) : pts[j] < v}) < k
        /\ Cardinality({j \in 1..Len(pts) : pts[j] <= v}) >= k

\* the double p is x / n rounded to nearest: |p - x / n| is at most half a unit of the
\* last place of p (naturals x and n > 0)
NearestQuotient(p, x, n) ==
    LET s == IF p.e < 0 THEN -p.e ELSE 0
        m == IF p.e < 0 THEN Norm(p.m) ELSE ShiftLeft(p.m, p.e)
        a == MulSmall(m, n)
        b == ShiftLeft(ToBig(x), s)
        d == IF BigLess(a, b) THEN BigSub(b, a) ELSE BigSub(a, b)
    IN  /\ ~BigLess(ToBig(n), MulSmall(d, 2))
        /\ (p.e >= 0 \/ BitLen(p.m) < 53) => d = <<>>

StoredPoints == [k \in 1..Len(calc.scores) |-> calc.scores[k].totalPoints]

\* C22: getStatistics over a non-empty record set returns as median the middle value of
\* the sorted totalPoints when the count is odd and the average of the two middle sorted
\* values when the count is even, and as mean the sum of totalPoints divided by the
\* count; the median lies between the minimum and the maximum totalPoints.
C22_MedianAndMean ==
    (calc.phase = "ranker" /\ calc.ret.kind = "stats" /\ calc.scores # <<>>) =>
        LET n   == Len(calc.scores)
            st  == calc.ret.stats
            lo  == KthSmallest(StoredPoints, (n + 1) \div 2)
            hi  == KthSmallest(StoredPoints, (n \div 2) + 1)
        IN  /\ n % 2 = 1 => DoubleEq(st.medianScore, DoubleOfInt(lo))
            /\ n % 2 = 0 => DoubleEq(DoubleMul(st.medianScore, DoubleOfInt(2)),
                                     DoubleOfInt(lo + hi))
            /\ NearestQuotient(st.meanScore, Sum(StoredPoints), n)
            /\ ~DoubleLess(st.medianScore, DoubleOfInt(SeqMin(StoredPoints)))
            /\ ~DoubleLess(DoubleOfInt(SeqMax(StoredPoints)), st.medianScore)
            /\ st.totalGames = n

C22_Witness ==
    /\ calc.phase = "ranker"
    /\ calc.ret.kind = "stats"
    /\ StoredPoints = <<2100, 950, 1240, 950>>
    /\ DoubleEq(calc.ret.stats.medianScore, DoubleOfInt(1095))
    /\ DoubleEq(calc.ret.stats.meanScore, DoubleOfInt(1310))

\* the stored records a mode filter lets through
Matching(modeFilter) ==
    SelectSeq(calc.scores, LAMBDA sc : modeFilter = "" \/ sc.mode = modeFilter)

\* C23: empty-history queries return defined sentinel values: a session with no
\* recorded reactions reports average, fastest and slowest reaction 0 and accuracy 0;
\* calculatePercentile on an empty record set returns 100; getRankings on an empty or
\* fully filtered-out record set returns an empty list and on a single record gives
\* percentile 100; getStatistics on an empty set returns all zeros; the Java analyzer
\* without reactions answers 0 for the average, the fastest and the slowest reaction.
C23_EmptyHistory ==
    /\ (ret.kind = "report" /\ reactions = <<>>) =>
          /\ ret.AvgReactionMs = Ratio(0, 1)
          /\ ret.FastestReaction = 0 /\ ret.SlowestReaction = 0
          /\ ret.Accuracy = Ratio(0, 1)
    /\ (calc.phase = "ranker" /\ calc.ret.kind = "percentile" /\ calc.scores = <<>>) =>
          DoubleEq(calc.ret.value, DoubleOfInt(100))
    /\ (calc.phase = "ranker" /\ calc.ret.kind = "rankings") =>
          /\ Matching(calc.ret.modeFilter) = <<>> => calc.ret.entries = <<>>
          /\ Len(Matching(calc.ret.modeFilter)) = 1 =>
                /\ Len(calc.ret.entries) = 1
                /\ DoubleEq(calc.ret.entries[1].percentile, DoubleOfInt(100))
    /\ (calc.phase = "ranker" /\ calc.ret.kind = "stats" /\ calc.scores = <<>>) =>
          /\ calc.ret.stats.totalGames = 0
          /\ \A f \in {"meanScore", "medianScore", "meanReactionMs", "stdDevScore"} :
                DoubleEq(calc.ret.stats[f], DoubleOfInt(0))
    /\ (tracker.phase = "analyzer" /\ tracker.reactionTimes = <<>>) =>
          /\ tracker.ret.kind = "average" => tracker.ret.value = Ratio(0, 1)
          /\ tracker.ret.kind \in {"fastest", "slowest"} => tracker.ret.value = 0

\* a ranking filtered down to nothing, next to a stored record of another mode
C23_Witness ==
    /\ calc.phase = "ranker" /\ Len(calc.scores) = 1 /\ calc.ret.kind = "rankings"
    /\ calc.ret.modeFilter = "speed" /\ calc.scores[1].mode = "survival"
    /\ calc.ret.entries = <<>>

\* the report of a started session without reactions
EmptyReportReached ==
    /\ ret.kind = "report" /\ reactions = <<>> /\ State = "Active"
    /\ ret.FastestReaction = 0

\* the average of an analyzer without reactions
EmptyAverageReached ==
    /\ tracker.phase = "analyzer" /\ tracker.reactionTimes = <<>>
    /\ tracker.ret.kind = "average"

\* the report of a session without recorded reactions, in any session
ReportOfEmptyHistory ==
    (ret.kind = "report" /\ reactions = <<>>) =>
        /\ ret.AvgReactionMs = Ratio(0, 1)
        /\ ret.FastestReaction = 0 /\ ret.SlowestReaction = 0
        /\ ret.Accuracy = Ratio(0, 1)

\* C24: right after Start on a freshly created session the session is Active with
\* Difficulty 1, Score 0, TotalPoints 0 and its mode resource initialised (Lives = 3
\* for Endless, TimeLeft = 60 for Survival, Target = 50 for SpeedRun); throughout the
\* session only the resource of the session's own mode changes, the two other
\* resources keep their sentinel value -1, and Target never changes.
C24_ModeResources ==
    [][/\ (State = "Idle" /\ State' = "Active") =>
              /\ Difficulty' = 1 /\ Score' = 0 /\ TotalPoints' = 0
              /\ Mode' = "Endless" => Lives' = 3
              /\ Mode' = "Survival" => TimeLeft' = 60
              /\ Mode' = "SpeedRun" => Target' = 50
       /\ Mode' = Mode
       /\ Target' = Target
       /\ Mode # "Endless" => (Lives = -1 /\ Lives' = -1)
       /\ Mode # "Survival" => (TimeLeft = -1 /\ TimeLeft' = -1)
       /\ Mode # "SpeedRun" => (Target = -1 /\ Target' = -1)]_vars

\* the resource of the mode has changed, the two others have not
C24_Witness ==
    /\ Mode = "Survival" /\ State = "Active"
    /\ TimeLeft = 60 + 3 - 3 - 3
    /\ Score = 1 /\ WrongAnswers = 2
    /\ Lives = -1 /\ Target = -1

\* the difficulty the thresholds give for a score
ThresholdDifficulty(score) ==
    CHOOSE d \in 1..5 :
        /\ score >= 10 * (d - 1)
        /\ d < 5 => score < 10 * d

\* C25: in every reachable state Difficulty equals the threshold function of Score
\* (>= 40 -> 5, >= 30 -> 4, >= 20 -> 3, >= 10 -> 2, else 1) although it is re-derived
\* only on every 5th correct answer; Difficulty lies in 1..5 and never decreases.
C25_DifficultyFollowsScore ==
    /\ [](Difficulty = ThresholdDifficulty(Score) /\ Difficulty \in 1..5)
    /\ [][Difficulty' >= Difficulty]_vars

\* a score between two re-derivations, above the last threshold
C25_Witness ==
    /\ ret.kind = "outcome" /\ ret.correct
    /\ Score = 43 /\ Difficulty = 5

\* the number of colours of the pool of a difficulty
PoolSize(difficulty) == Min(15, 4 + 2 * (difficulty - 1))

\* the names a displayed word can take from a pool
WordsOf(pool) == {ToUpper(pool[i]) : i \in 1..Len(pool)}

\* C26: the active colour pool is exactly the first min(15, 4 + 2*(Difficulty-1))
\* colours of the registry for the current Difficulty; it is regenerated whenever
\* Difficulty changes; it holds at least 4 colours; a question draws its font colour
\* and its word only from it.
C26_ActivePool ==
    /\ [](/\ Len(colorPool) = PoolSize(Difficulty)
          /\ \A i \in 1..Len(colorPool) : colorPool[i] = Colors[i]
          /\ Len(colorPool) >= 4)
    /\ [][/\ Difficulty' # Difficulty => Len(colorPool') > Len(colorPool)
          /\ (CurrentQuestion' # CurrentQuestion) =>
                /\ CurrentQuestion'.FontColorName \in Range(colorPool)
                /\ CurrentQuestion'.TextWord \in WordsOf(colorPool)
                /\ CurrentQuestion'.TextWord # ToUpper(CurrentQuestion'.FontColorName)]_vars

\* a question generated from the six-colour pool of difficulty 2
C26_Witness ==
    /\ Difficulty = 2 /\ Len(colorPool) = 6
    /\ ret.kind = "question"
    /\ ret = CurrentQuestion

\* for every outcome of the draws of the C# and Java generators, at every
\* difficulty, the font colour and the word come from the first PoolSize colours
QuestionsFromPool ==
    (calc.phase = "question" /\ calc.impl \in {"csharp", "java"} /\ calc.question # Null) =>
        /\ calc.question.FontColorName \in Range(SubSeq(Colors, 1, PoolSize(calc.difficulty)))
        /\ calc.question.TextWord \in WordsOf(SubSeq(Colors, 1, PoolSize(calc.difficulty)))

\* a step in which SubmitAnswer evaluated an answer
AnswerStep == Len(reactions') = Len(reactions) + 1

\* what the first conjuncts of C27 say of a correct answer: combo after the
\* increment, Difficulty before the re-scaling, pointsEarned added to TotalPoints
CorrectAnswerPoints(reactionTimeMs) ==
    /\ ret'.pointsEarned = CalculatePoints(reactionTimeMs, Combo + 1, Difficulty)
    /\ ret'.combo = Combo + 1
    /\ Combo = 0 => ret'.pointsEarned = CalculatePoints(reactionTimeMs, 1, Difficulty)
    /\ Score' = 10 =>
          /\ Difficulty = 1 /\ Difficulty' = 2
          /\ ret'.pointsEarned = CalculatePoints(reactionTimeMs, Combo + 1, 1)
    /\ Score' = 11 =>
          ret'.pointsEarned = CalculatePoints(reactionTimeMs, Combo + 1, 2)
    /\ ret'.pointsEarned = TotalPoints' - TotalPoints

\* C27: the points of a correct answer are computed with the combo after this
\* answer's increment and with the Difficulty in effect before this answer's
\* re-scaling: the first correct answer of a run is scored with combo 1, the correct
\* answer that raises Score to 10 is scored at difficulty 1 and the next one at
\* difficulty 2; pointsEarned in the outcome equals the increase of TotalPoints in
\* that step for a correct answer; for an incorrect answer it is 0 while
\* TotalPoints stays, except in SpeedRun where TotalPoints drops by 5, not below 0.
C27_PointsOrder ==
    [][AnswerStep =>
         IF ret'.correct
         THEN CorrectAnswerPoints(reactions'[Len(reactions')])
         ELSE /\ ret'.pointsEarned = 0
              /\ TotalPoints' = IF Mode = "SpeedRun" THEN Max(0, TotalPoints - 5)
                                ELSE TotalPoints]_vars

\* C27 as stated: pointsEarned equals the increase of TotalPoints in every step
\* that evaluates an answer, and is 0 for an incorrect answer
C27_PointsEqualIncrease ==
    [][AnswerStep =>
         /\ ret'.correct => CorrectAnswerPoints(reactions'[Len(reactions')])
         /\ ~ret'.correct => ret'.pointsEarned = 0
         /\ ret'.pointsEarned = TotalPoints' - TotalPoints]_vars

\* a SpeedRun session after one correct and then one incorrect answer: the outcome
\* reports 0 points and TotalPoints is 5 below the points of the correct answer
C27_Witness ==
    /\ Mode = "SpeedRun" /\ Len(reactions) = 2 /\ Score = 1 /\ WrongAnswers = 1
    /\ ret.kind = "outcome" /\ ~ret.correct /\ ret.pointsEarned = 0
    /\ TotalPoints = CalculatePoints(reactions[1], 1, 1) - 5
    /\ TotalPoints > 0

\* the tenth correct answer in a row has been scored at difficulty 1 with combo 10,
\* and the session is now at difficulty 2
TenthCorrectAtDifficulty1 ==
    /\ ret.kind = "outcome" /\ ret.correct
    /\ Score = 10 /\ Combo = 10 /\ Difficulty = 2
    /\ ret.pointsEarned = CalculatePoints(reactions[Len(reactions)], 10, 1)
    /\ ret.pointsEarned # CalculatePoints(reactions[Len(reactions)], 10, 2)
    /\ ret.pointsEarned # CalculatePoints(reactions[Len(reactions)], 9, 1)

\* the same registry colour, whatever the spelling
SameColour(a, b) ==
    \E i \in 1..Len(Colors) : {a, b} \subseteq {Colors[i], UpperNames[i], LowerNames[i]}

\* what an evaluated answer must be: correct exactly for the font colour in any
\* case, hence wrong for the displayed word
ValidatedAs(question, selectedColor, correct) ==
    /\ correct <=> SameColour(question.FontColorName, selectedColor)
    /\ \A i \in 1..Len(Colors) :
           selectedColor \in {Colors[i], UpperNames[i], LowerNames[i]} =>
               (correct <=> Colors[i] = question.FontColorName)
    /\ selectedColor = "WrongColor" => ~correct
    /\ SameColour(question.TextWord, selectedColor) => ~correct

\* C28: an answer is correct exactly when the selected colour equals the question's
\* font colour ignoring letter case: the same name in upper, lower or mixed case is
\* accepted, every other colour name is rejected, and in particular the name of the
\* displayed word is rejected.
C28_CaseInsensitiveAnswer ==
    /\ (calc.phase = "validate" /\ ret.kind = "outcome" /\ answers # <<>>) =>
           ValidatedAs(CurrentQuestion, answers[Len(answers)], ret.correct)
    /\ (calc.phase = "validate" /\ calc.question # Null) =>
           ValidatedAs(calc.question, calc.selectedColor, calc.valid)

\* the session has accepted the font colour written in lower case
C28_Witness ==
    /\ calc.phase = "validate"
    /\ ret.kind = "outcome" /\ ret.correct
    /\ CurrentQuestion.FontColorName = "Green"
    /\ answers = <<"green">>


\* the colours of the active pool that can be distractors of a question
PoolDistractors(difficulty, question) ==
    Range(SubSeq(Colors, 1, PoolSize(difficulty)))
        \ {question.FontColorName, ColourOfWord(question.TextWord)}

\* C29: the options of a question are the correct colour plus up to 3 distinct
\* colours of the active pool other than the correct colour and the displayed word;
\* colours from the full registry are added only when the pool offers fewer than 3
\* such distractors, only colours not already among the options, and only until
\* there are exactly 4 options.
C29_OptionsComposition ==
    (calc.phase = "question" /\ calc.impl \in {"csharp", "java"} /\ calc.question # Null) =>
        LET options     == Range(calc.question.Options)
            distractors == PoolDistractors(calc.difficulty, calc.question)
            taken       == options \cap distractors
            fillers     == options \ (distractors \cup {calc.question.FontColorName})
        IN  /\ calc.question.FontColorName \in options
            /\ Cardinality(taken) = Min(3, Cardinality(distractors))
            /\ fillers # {} => Cardinality(distractors) < 3
            /\ fillers \subseteq Range(Colors)
            /\ Cardinality(fillers) = 3 - Cardinality(taken)
            /\ Cardinality(options) = 4
            /\ Len(calc.question.Options) = 4

\* the four-colour pool offers two distractors and one colour of the registry,
\* outside the pool, fills the options
C29_Witness ==
    /\ calc.phase = "question" /\ calc.impl = "java" /\ calc.difficulty = 1
    /\ calc.question # Null
    /\ calc.question.FontColorName = "Green"
    /\ calc.question.TextWord = "RED"
    /\ Range(calc.question.Options) = {"Green", "Blue", "Yellow", "Beige"}

\* the options of a question that are not colours of the pool of a difficulty
OutsidePool(difficulty, question) ==
    Range(question.Options) \ Range(SubSeq(Colors, 1, PoolSize(difficulty)))

\* an option of the question is the colour its displayed word names
NamesWord(question) == ColourOfWord(question.TextWord) \in Range(question.Options)

\* C30: whenever the active pool has at least 5 colours (difficulty >= 2), every
\* option of a generated question belongs to the active pool and no option names
\* the colour of the displayed word; only with the 4-colour pool of difficulty 1
\* can an option come from outside the pool or name the displayed word.
C30_OptionsWithinPool ==
    (calc.phase = "question" /\ calc.impl \in {"csharp", "java"} /\ calc.question # Null) =>
        /\ PoolSize(calc.difficulty) >= 5 <=> calc.difficulty >= 2
        /\ calc.difficulty >= 2 =>
              /\ OutsidePool(calc.difficulty, calc.question) = {}
              /\ ~NamesWord(calc.question)
        /\ (OutsidePool(calc.difficulty, calc.question) # {} \/ NamesWord(calc.question)) =>
              /\ calc.difficulty = 1
              /\ PoolSize(calc.difficulty) = 4

\* with the six-colour pool of difficulty 2 all four options are pool colours and
\* none is the displayed word
C30_Witness ==
    /\ calc.phase = "question" /\ calc.impl = "csharp" /\ calc.difficulty = 2
    /\ calc.question # Null
    /\ calc.question.FontColorName = "Orange"
    /\ calc.question.TextWord = "RED"
    /\ Range(calc.question.Options) = {"Orange", "Blue", "Green", "Purple"}

\* with the four-colour pool an option comes from outside the pool
OutsidePoolAtDifficulty1 ==
    /\ calc.phase = "question" /\ calc.impl = "csharp" /\ calc.difficulty = 1
    /\ calc.question # Null
    /\ OutsidePool(1, calc.question) = {"White"}
    /\ ~NamesWord(calc.question)

\* with the four-colour pool an option names the displayed word
NamesWordAtDifficulty1 ==
    /\ calc.phase = "question" /\ calc.impl = "java" /\ calc.difficulty = 1
    /\ calc.question # Null
    /\ OutsidePool(1, calc.question) = {}
    /\ NamesWord(calc.question)

\* in a session, every question NextQuestion generates while the active pool has at
\* least 5 colours has its options in that pool and none names the displayed word
SessionOptionsWithinPool ==
    [][(CurrentQuestion' # CurrentQuestion /\ Len(colorPool) >= 5) =>
          /\ Range(CurrentQuestion'.Options) \subseteq Range(colorPool)
          /\ ~NamesWord(CurrentQuestion')]_vars


\* C31: question generation always terminates: under fair random draws the loop that
\* completes the options leaves with 4 options, for every pool, font colour, word
\* and choice of distractors of the C# and Java generators and of the client
C31_FillTerminates == <>(calc.pc = "done" /\ Len(calc.options) = 4)

\* a C# loop at difficulty 1 has ended after accepting a filler from outside the pool
C31_Witness ==
    /\ calc.impl = "csharp" /\ calc.difficulty = 1 /\ calc.pc = "done"
    /\ Len(calc.options) = 4
    /\ calc.options[4] = calc.filler
    /\ calc.filler \notin Range(GetColorPool(1))

\* a client loop has ended with three of its four distractors
ClientFillEnded ==
    /\ calc.impl = "client" /\ calc.pc = "done" /\ Len(calc.options) = 4
    /\ Range(calc.options) \subseteq Range(WORD_LIST) \ {calc.textWord}

\* C32: in every reachable state of a session the number of recorded reaction times
\* is Score + WrongAnswers: an accepted answer records exactly one reaction time and
\* increments exactly one of the two counters, a rejected SubmitAnswer records none;
\* hence the report's accuracy is Score * 100 / (number of recorded reactions).
C32_ReactionsCounted ==
    /\ [](Len(reactions) = Score + WrongAnswers)
    /\ [](ret.kind = "report" /\ Len(reactions) > 0 =>
             ret.Accuracy = Ratio(ret.CorrectAnswers * 100, Len(reactions)))
    /\ [][SubmitStep =>
            IF ret'.kind = "outcome"
            THEN /\ reactions' = Append(reactions, reactions'[Len(reactions')])
                 /\ \/ Score' = Score + 1 /\ WrongAnswers' = WrongAnswers
                    \/ Score' = Score /\ WrongAnswers' = WrongAnswers + 1
            ELSE /\ ret' = ErrorOutcome
                 /\ UNCHANGED <<reactions, Score, WrongAnswers>>]_vars

\* the report of a Survival session after one correct and two wrong answers: three
\* reaction times, accuracy 100/3
C32_Witness ==
    /\ Mode = "Survival" /\ ret.kind = "report"
    /\ Score = 1 /\ WrongAnswers = 2 /\ Len(reactions) = 3
    /\ ret.Accuracy = Ratio(100, 3)

\* what an entry copies from a stored record
EntryOf(sc) ==
    [username |-> sc.username, totalPoints |-> sc.totalPoints,
     avgReactionMs |-> sc.avgReactionMs, rating |-> sc.rating]

\* how often the sequence s holds x
Occurrences(s, x) == Cardinality({k \in 1..Len(s) : s[k] = x})

\* C33: getRankings returns exactly the stored records whose mode equals modeFilter
\* (all stored records when the filter is empty), each once, with ranks that are
\* exactly 1..N in output order without gaps or repeats.
C33_RankingsComplete ==
    (calc.phase = "ranker" /\ calc.ret.kind = "rankings") =>
        LET matching == Matching(calc.ret.modeFilter)
            stored   == [k \in 1..Len(matching) |-> EntryOf(matching[k])]
            returned == [k \in 1..Len(calc.ret.entries) |-> EntryOf(calc.ret.entries[k])]
        IN  /\ Len(returned) = Len(stored)
            /\ \A x \in Range(stored) \cup Range(returned) :
                   Occurrences(returned, x) = Occurrences(stored, x)
            /\ calc.ret.modeFilter = "" => Len(returned) = Len(calc.scores)
            /\ \A k \in 1..Len(calc.ret.entries) : calc.ret.entries[k].rank = k

\* four stored records, one of them twice and one of another mode, ranked with the
\* filter "endless": three entries, the repeated record twice, ranks 1, 2, 3
C33_Witness ==
    /\ calc.phase = "ranker" /\ calc.ret.kind = "rankings"
    /\ calc.ret.modeFilter = "endless"
    /\ Len(calc.scores) = 4
    /\ \E k \in 1..4 : calc.scores[k].mode = "survival"
    /\ Len(calc.ret.entries) = 3
    /\ \E i, j \in 1..3 : i # j /\ EntryOf(calc.ret.entries[i]) = EntryOf(calc.ret.entries[j])
    /\ \E k \in 1..3 : EntryOf(calc.ret.entries[k]) # EntryOf(calc.ret.entries[1])
    /\ [k \in 1..3 |-> calc.ret.entries[k].rank] = <<1, 2, 3>>

\* the step is a call of getRankings, calculatePercentile or getStatistics
RankerQuery == calc.phase = "ranker" /\ calc'.ret.kind \in {"rankings", "percentile", "stats"}

ClientTerminal(c) ==
    \/ c.mode = "endless" /\ c.lives <= 0
    \/ c.mode = "survival" /\ TimeUp(c.timeLeft)
    \/ c.mode = "speed" /\ c.score >= c.target

\* the step is an answer click
ClickStep == client.phase = "on" /\ Len(client'.reactions) = Len(client.reactions) + 1

\* the fields an answer click can write
ClientCounters(c) == <<c.score, c.totalPoints, c.combo, c.maxCombo, c.lives, c.timeLeft>>

\* C35: in the client game, once the terminal condition of the mode holds (lives <= 0
\* in endless, timeLeft <= 0 in survival, score >= target in speed run), no later
\* answer click changes score, totalPoints, combo, maxCombo, lives or timeLeft, for
\* every interleaving of answer clicks with the timer callback; in particular lives
\* never drops below 0 and score never exceeds the target.
C35_TerminalStopsClicks ==
    /\ [][(ClickStep /\ ClientTerminal(client)) =>
             ClientCounters(client') = ClientCounters(client)]_vars
    /\ [](client.phase = "on" => client.lives >= 0 /\ client.score <= client.target)

\* the same for the clicks that come before the timer callback has finished the game
ClicksStopBeforeFinish ==
    [][(ClickStep /\ ClientTerminal(client) /\ client.finished = 0) =>
          ClientCounters(client') = ClientCounters(client)]_vars

\* the same for the first click on each question
FirstClicksStop ==
    [][(ClickStep /\ ClientTerminal(client) /\ client.pendingAsk = 0) =>
          ClientCounters(client') = ClientCounters(client)]_vars

LivesNeverNegative == client.phase = "on" => client.lives >= 0
ScoreWithinTarget == client.phase = "on" => client.score <= client.target

C38_ClientRatingAsServer ==
    (calc.phase = "rating" /\ calc.client # NotRated) =>
        calc.client = CalculateRating(calc.avgReactionMs, calc.score)

\* the same for the games whose server-side rating is one of the client's four
ClientRatingAsServerOnSharedTiers ==
    (calc.phase = "rating" /\ calc.client # NotRated
        /\ CalculateRating(calc.avgReactionMs, calc.score)
              \in {"Grandmaster", "Expert", "Advanced", "Trainee"}) =>
        calc.client = CalculateRating(calc.avgReactionMs, calc.score)

\* a game for which client and server agree on a rating other than Trainee
ClientRatingAgreesSomewhere ==
    /\ calc.phase = "rating" /\ calc.client = "Grandmaster"
    /\ calc.csharp = "Grandmaster"

\* C36: in the client game, whenever the terminal condition of the mode becomes true
\* (lives <= 0 in endless, timeLeft <= 0 in survival, score >= target in speed run),
\* the session is eventually finished, that is finishRefinedConfusion is called for
\* it, for every interleaving of answer clicks and timer callbacks, assuming the
\* 100 ms timer keeps firing.
C36_TerminalFinishes ==
    (client.phase = "on" /\ ClientTerminal(client)) ~> (client.finished > 0)

\* the same, mode by mode
EndlessTerminalFinishes ==
    (client.mode = "endless" /\ ClientTerminal(client)) ~> (client.finished > 0)
SpeedTerminalFinishes ==
    (client.mode = "speed" /\ ClientTerminal(client)) ~> (client.finished > 0)
SurvivalTerminalFinishes ==
    (client.mode = "survival" /\ ClientTerminal(client)) ~> (client.finished > 0)

\* a terminal condition keeps holding until the timer callback has finished the game
TerminalIsStable ==
    [][(client.phase = "on" /\ ClientTerminal(client) /\ client.finished = 0) =>
          ClientTerminal(client')]_vars

\* a survival game whose time was up is running again
SurvivalRevived ==
    /\ client.mode = "survival" /\ client.finished = 0
    /\ client.timeLeft = DoubleOfInt(3) /\ client.pendingAsk = 2
====
